---------------------------- MODULE Spec2Model ----------------------------
(***************************************************************************)
(* A model of the helios front end:                                        *)
(*   - the sink of helios-parser (sink.rs), which replays the parser's     *)
(*     event log against the token stream and builds the green tree;       *)
(*   - the top-level grammar of helios-parser (decl.rs);                   *)
(*   - the Pratt parser of koi-syntax (parser.rs);                         *)
(*   - the severity order, FormattedText and the Diagnostic builder of     *)
(*     helios-diagnostics (diagnostic.rs);                                 *)
(*   - the symbol tables of koi-syntax (syntax.rs);                        *)
(*   - Position and Cursor of koi-parser (source.rs).                      *)
(* Indices are 0-based where the Rust code's are (i, idx, cursor, marker   *)
(* positions); TLA+ sequences are 1-based, so event i is events[i + 1].    *)
(***************************************************************************)
EXTENDS Integers, Sequences, FiniteSets, TLC

VARIABLES
    tokens,       \* Sink.tokens / Parser source: the lexed token stream
    events,       \* Sink.events: the event log, tombstoned in place
    cursor,       \* Sink.cursor
    i,            \* the loop variable of Sink::finish
    parents,      \* GreenNodeBuilder.parents: stack of (kind, first_child)
    children,     \* GreenNodeBuilder.children
    tree,         \* the value returned by Sink::finish, <<>> until then
    sphase,       \* "off" | "parse" | "sink" | "done" | "panic"
    events0,      \* history: the event log as handed to Sink::new
    taken,        \* history: how often each event was acted upon
    diagnostics,  \* the parser's side channel of diagnostics
    src,          \* koi-syntax: what the Lexer lexes, one record per token
    lexed,        \* koi-syntax: Lexer position, the tokens handed out so far
    peeked_token, \* koi-syntax: Parser.peeked_token
    nodes,        \* koi-syntax: `nodes` of Parser::parse
    kphase,       \* "off" | "parse" | "done"
    severities,   \* helios-diagnostics: the slice a severity check walks
    checked,      \* helios-diagnostics: how many of them the loop has seen
    is_ok,        \* helios-diagnostics: `is_ok` of the check
    returned,     \* koi-syntax: history, what next_token has returned
    last_peek,    \* koi-syntax: what the last peek returned, if it was last
    segments,     \* helios-diagnostics: FormattedText.segments being built
    colorize,     \* helios-diagnostics: SHOULD_COLORIZE.should_colorize()
    out,          \* helios-diagnostics: what fmt has written to the Formatter
    written,      \* helios-diagnostics: segments the loop of fmt has written
    tphase,       \* "off" | "build" | "fmt" | "diag"
    diag,         \* helios-diagnostics: the Diagnostic value being built
    last_call,    \* history: the builder call made last, with its argument
    sym_chars,    \* koi-syntax: the spelling a symbol function is called on
    sym_called,   \* koi-syntax: the symbol function called, "" before
    sym_kind,     \* koi-syntax: what the call gave
    cur_chars,    \* koi-parser: Cursor.chars, the characters still ahead
    cur_pos,      \* koi-parser: Cursor.pos, <<>> while there is no Cursor
    cur_consumed, \* history: the characters advance has handed out
    cur_last      \* history: the last call on the Cursor and its result

sinkVars == <<tokens, events, cursor, i, parents, children, tree, sphase,
              events0, taken, diagnostics>>

koiVars == <<src, lexed, peeked_token, nodes, kphase>>

diagVars == <<severities, checked, is_ok>>

lookVars == <<returned, last_peek>>

fmtVars == <<segments, colorize, out, written, tphase, diag, last_call>>

symVars == <<sym_chars, sym_called, sym_kind>>

curVars == <<cur_chars, cur_pos, cur_consumed, cur_last>>

vars ==
    <<sinkVars, koiVars, diagVars, lookVars, fmtVars, symVars, curVars>>

-----------------------------------------------------------------------------
(* Bounds of the model.                                                    *)

MaxEvents == 3
MaxSinkTokens == 2
MaxSig == 4
MaxKoiLen == 5
MaxSeverities == 4
MaxLookLen == 3
MaxSegments == 3
MaxChars == 2
MaxOperators == 2
MaxSource == 4
MaxNth == 5

-----------------------------------------------------------------------------
(* Events (parser/event.rs as used by sink.rs) and tokens.                 *)

SeqsUpTo(S, n) == UNION {[1..m -> S] : m \in 0..n}

None == <<>>
Some(x) == <<x>>

Placeholder == [type |-> "Placeholder"]
FinishNode == [type |-> "FinishNode"]
StartNode(kind, forward_parent) ==
    [type |-> "StartNode", kind |-> kind, forward_parent |-> forward_parent]
AddToken(kind, text) == [type |-> "AddToken", kind |-> kind, text |-> text]

Token(kind, text) == [kind |-> kind, text |-> text]

TriviaKinds == {"Whitespace", "Newline", "Comment"}

is_trivia(kind) == kind \in TriviaKinds

(* Elements of the green tree. *)
Leaf(kind, text) == [node |-> FALSE, kind |-> kind, text |-> text]
Node(kind, kids) == [node |-> TRUE, kind |-> kind, children |-> kids]

-----------------------------------------------------------------------------
(* The GreenNodeBuilder as Sink drives it.  A builder value is a record    *)
(* [parents, children, panicked].                                          *)

Builder(ps, cs) == [parents |-> ps, children |-> cs, panicked |-> FALSE]

(* builder.start_node(kind) *)
start_node(b, kind) ==
    [b EXCEPT !.parents =
        Append(@, [kind |-> kind, first_child |-> Len(b.children)])]

(* builder.token(kind, text) *)
builder_token(b, kind, text) ==
    [b EXCEPT !.children = Append(@, Leaf(kind, text))]

(* builder.finish_node(): pops the innermost open node; with none open the *)
(* pop's unwrap panics.                                                    *)
finish_node(b) ==
    IF b.parents = <<>>
    THEN [b EXCEPT !.panicked = TRUE]
    ELSE LET top == b.parents[Len(b.parents)]
             kids == SubSeq(b.children, top.first_child + 1, Len(b.children))
         IN  [b EXCEPT
                !.parents = SubSeq(@, 1, Len(@) - 1),
                !.children = Append(SubSeq(@, 1, top.first_child),
                                    Node(top.kind, kids))]

(* builder.finish(): asserts that exactly one element is left and that it  *)
(* is a node.  Returns <<tree>> or <<>> when it panics.                    *)
builder_finish(b) ==
    IF Len(b.children) = 1 /\ b.children[1].node
    THEN <<b.children[1]>>
    ELSE <<>>

-----------------------------------------------------------------------------
(* Sink (sink.rs).  A sink value is a record                               *)
(* [events, cursor, builder, taken, panicked].                             *)

(* Sink::token *)
SinkToken(s, kind, text) ==
    [s EXCEPT !.builder = builder_token(@, kind, text),
              !.cursor = @ + 1]

(* A sink that steps over trivia without attaching it. *)
RECURSIVE eat_trivia_dropping(_, _)
eat_trivia_dropping(s, toks) ==
    IF s.cursor < Len(toks) /\ is_trivia(toks[s.cursor + 1].kind)
    THEN eat_trivia_dropping([s EXCEPT !.cursor = @ + 1], toks)
    ELSE s

(* Sink::eat_trivia *)
RECURSIVE eat_trivia(_, _)
eat_trivia(s, toks) ==
    IF s.cursor < Len(toks) /\ is_trivia(toks[s.cursor + 1].kind)
    THEN eat_trivia(SinkToken(s, toks[s.cursor + 1].kind,
                                 toks[s.cursor + 1].text), toks)
    ELSE s

(* mem::replace(&mut self.events[idx], Event::Placeholder) *)
Tombstone(evs, idx) == [evs EXCEPT ![idx + 1] = Placeholder]

(* A walk that leaves the forward parents it visits in the log. *)
RECURSIVE WalkWithoutTombstone(_)
WalkWithoutTombstone(w) ==
    IF w.forward_parent = None THEN w
    ELSE LET idx == w.idx + w.forward_parent[1] IN
         IF idx >= Len(w.events)
         THEN [w EXCEPT !.panicked = TRUE]
         ELSE LET e == w.events[idx + 1] IN
              IF e.type = "StartNode"
              THEN WalkWithoutTombstone(
                     [w EXCEPT !.taken = [@ EXCEPT ![idx + 1] = @ + 1],
                               !.kinds = Append(@, e.kind),
                               !.idx = idx,
                               !.forward_parent = e.forward_parent])
              ELSE [w EXCEPT !.panicked = TRUE]

(* A walk that ends the chain quietly at a target that is no StartNode or  *)
(* lies outside the log.                                                   *)
RECURSIVE WalkLenient(_)
WalkLenient(w) ==
    IF w.forward_parent = None THEN w
    ELSE LET idx == w.idx + w.forward_parent[1] IN
         IF idx >= Len(w.events) THEN w
         ELSE LET e == w.events[idx + 1] IN
              IF e.type = "StartNode"
              THEN WalkLenient(
                     [w EXCEPT !.events = Tombstone(@, idx),
                               !.taken = [@ EXCEPT ![idx + 1] = @ + 1],
                               !.kinds = Append(@, e.kind),
                               !.idx = idx,
                               !.forward_parent = e.forward_parent])
              ELSE w

(* The `while let Some(fp) = forward_parent` loop of Sink::finish, lines   *)
(* 42-56: w is [events, taken, kinds, idx, forward_parent, panicked].      *)
RECURSIVE WalkForwardParents(_)
WalkForwardParents(w) ==
    IF w.forward_parent = None THEN w
    ELSE LET idx == w.idx + w.forward_parent[1] IN
         IF idx >= Len(w.events)
         THEN [w EXCEPT !.panicked = TRUE]       \* index out of bounds
         ELSE LET e == w.events[idx + 1] IN
              IF e.type = "StartNode"
              THEN WalkForwardParents(
                     [w EXCEPT !.events = Tombstone(@, idx),
                               !.taken = [@ EXCEPT ![idx + 1] = @ + 1],
                               !.kinds = Append(@, e.kind),
                               !.idx = idx,
                               !.forward_parent = e.forward_parent])
              ELSE [w EXCEPT !.events = Tombstone(@, idx),
                             !.panicked = TRUE]  \* unreachable!()

(* A loop that opens the kinds in the order the walk found them. *)
RECURSIVE StartNodesInOrder(_, _)
StartNodesInOrder(b, kinds) ==
    IF kinds = <<>> THEN b
    ELSE StartNodesInOrder(start_node(b, kinds[1]), Tail(kinds))

(* `for kind in kinds.into_iter().rev() { builder.start_node(kind) }` *)
RECURSIVE StartNodesRev(_, _)
StartNodesRev(b, kinds) ==
    IF kinds = <<>> THEN b
    ELSE StartNodesRev(start_node(b, kinds[Len(kinds)]),
                       SubSeq(kinds, 1, Len(kinds) - 1))

(* The sink value held by the state. *)
TheSink ==
    [events |-> events, cursor |-> cursor,
     builder |-> Builder(parents, children),
     taken |-> taken, panicked |-> FALSE]

(* One iteration of the `for` loop on a StartNode event (lines 30-62). *)
OnStartNode(s, idx, e) ==
    LET w == WalkForwardParents(
               [events |-> Tombstone(s.events, idx),
                taken |-> [s.taken EXCEPT ![idx + 1] = @ + 1],
                kinds |-> <<e.kind>>, idx |-> idx,
                forward_parent |-> e.forward_parent, panicked |-> FALSE])
    IN  [s EXCEPT !.events = w.events,
                  !.taken = w.taken,
                  !.panicked = w.panicked,
                  !.builder = IF w.panicked THEN @
                              ELSE StartNodesRev(@, w.kinds)]

(* A sink that adds the token the stream holds at the cursor, where it    *)
(* holds one, in place of the event's.                                     *)
OnAddTokenFromStream(s, idx, e) ==
    LET t == IF s.cursor < Len(tokens) THEN tokens[s.cursor + 1] ELSE e IN
    SinkToken([s EXCEPT !.events = Tombstone(@, idx),
                        !.taken = [@ EXCEPT ![idx + 1] = @ + 1]],
              t.kind, t.text)

(* On an AddToken event (line 63). *)
OnAddToken(s, idx, e) ==
    SinkToken([s EXCEPT !.events = Tombstone(@, idx),
                        !.taken = [@ EXCEPT ![idx + 1] = @ + 1]],
              e.kind, e.text)

(* On a FinishNode event (line 64). *)
OnFinishNode(s, idx) ==
    LET b == finish_node(s.builder) IN
    [s EXCEPT !.events = Tombstone(@, idx),
              !.taken = [@ EXCEPT ![idx + 1] = @ + 1],
              !.builder = b,
              !.panicked = b.panicked]

(* A sink that steps over a token on a Placeholder event. *)
OnPlaceholderSkipping(s, idx) ==
    [s EXCEPT !.events = Tombstone(@, idx), !.cursor = @ + 1]

(* On a Placeholder event (line 65). *)
OnPlaceholder(s, idx) == [s EXCEPT !.events = Tombstone(@, idx)]

(* The state after one iteration that left the sink as s: the iteration    *)
(* ends with eat_trivia (line 68) unless it panicked.                      *)
AfterIteration(s) ==
    LET t == IF s.panicked THEN s ELSE eat_trivia(s, tokens) IN
    /\ events' = t.events
    /\ cursor' = t.cursor
    /\ parents' = t.builder.parents
    /\ children' = t.builder.children
    /\ taken' = t.taken
    /\ i' = i + 1
    /\ sphase' = IF s.panicked THEN "panic" ELSE "sink"
    /\ UNCHANGED <<tokens, tree, events0, diagnostics, koiVars, diagVars,
                   lookVars, fmtVars, symVars, curVars>>

InLoop == sphase = "sink" /\ i < Len(events)

SinkStartNode ==
    /\ InLoop
    /\ events[i + 1].type = "StartNode"
    /\ AfterIteration(OnStartNode(TheSink, i, events[i + 1]))

SinkAddToken ==
    /\ InLoop
    /\ events[i + 1].type = "AddToken"
    /\ AfterIteration(OnAddToken(TheSink, i, events[i + 1]))

SinkFinishNode ==
    /\ InLoop
    /\ events[i + 1].type = "FinishNode"
    /\ AfterIteration(OnFinishNode(TheSink, i))

SinkPlaceholder ==
    /\ InLoop
    /\ events[i + 1].type = "Placeholder"
    /\ AfterIteration(OnPlaceholder(TheSink, i))

(* `self.builder.finish()` after the loop (line 71). *)
SinkFinish ==
    /\ sphase = "sink"
    /\ i = Len(events)
    /\ tree' = builder_finish(Builder(parents, children))
    /\ sphase' = IF tree' = <<>> THEN "panic" ELSE "done"
    /\ UNCHANGED <<tokens, events, cursor, i, parents, children, events0,
                   taken, diagnostics, koiVars, diagVars, lookVars, fmtVars,
                   symVars, curVars>>

SinkNext ==
    \/ SinkStartNode
    \/ SinkAddToken
    \/ SinkFinishNode
    \/ SinkPlaceholder
    \/ SinkFinish

-----------------------------------------------------------------------------
(* The binding-power tables (koi-syntax parser.rs, lines 231-257), over    *)
(* the names of enum Symbol.  <<>> is None.                                *)

(* A table in which a prefix operator binds tighter than any infix one. *)
prefix_binding_power_tight(symbol) ==
    CASE symbol \in {"Minus", "Bang"} -> Some(11)
      [] OTHER -> None

prefix_binding_power(symbol) ==
    CASE symbol \in {"Minus", "Bang"} -> Some(9)
      [] OTHER -> None

infix_binding_power(symbol) ==
    CASE symbol = "Semicolon" -> Some(<<1, 2>>)
      [] symbol = "LThinArrow" -> Some(<<3, 2>>)
      [] symbol \in {"Eq", "BangEq"} -> Some(<<4, 3>>)
      [] symbol \in {"Lt", "Gt", "LtEq", "GtEq"} -> Some(<<5, 6>>)
      [] symbol \in {"Plus", "Minus"} -> Some(<<7, 8>>)
      [] symbol \in {"Asterisk", "ForwardSlash"} -> Some(<<9, 10>>)
      [] OTHER -> None

-----------------------------------------------------------------------------
(* The event-producing parser of helios-parser.  Only its grammar of       *)
(* declarations (grammar/decl.rs) is source held here; the primitives      *)
(* below (markers, bump, expect, the expression grammar, the root loop)    *)
(* follow the design document.  A parser value is a record                 *)
(* [tokens, cursor, events, diagnostics].                                  *)

ParserNew(toks) ==
    [tokens |-> toks, cursor |-> 0, events |-> <<>>, diagnostics |-> <<>>]

(* The parser looks at significant tokens only. *)
RECURSIVE SkipTrivia(_, _)
SkipTrivia(toks, c) ==
    IF c < Len(toks) /\ is_trivia(toks[c + 1].kind)
    THEN SkipTrivia(toks, c + 1)
    ELSE c

PeekKind(p) ==
    LET c == SkipTrivia(p.tokens, p.cursor) IN
    IF c < Len(p.tokens) THEN Some(p.tokens[c + 1].kind) ELSE None

is_at(p, kind) == PeekKind(p) = Some(kind)

is_at_end(p) == PeekKind(p) = None

(* parser.start(): a marker is the position of its Placeholder. *)
MarkerStart(p) == [p EXCEPT !.events = Append(@, Placeholder)]
MarkerPos(p) == Len(p.events)

(* marker.complete(parser, kind) *)
MarkerComplete(p, pos, kind) ==
    [p EXCEPT !.events =
        Append([@ EXCEPT ![pos + 1] = StartNode(kind, None)], FinishNode)]

(* completed.precede(parser): the new marker is at MarkerPos(p). *)
MarkerPrecede(p, completed) ==
    [p EXCEPT !.events =
        Append([@ EXCEPT ![completed + 1].forward_parent =
                            Some(Len(p.events) - completed)],
               Placeholder)]

(* parser.bump(): the next significant token becomes an AddToken event. *)
bump(p) ==
    LET c == SkipTrivia(p.tokens, p.cursor)
        t == p.tokens[c + 1]
    IN  [p EXCEPT !.events = Append(@, AddToken(t.kind, t.text)),
                  !.cursor = c + 1]

(* parser.expect(kind, context): a missing token is reported on the side   *)
(* channel and nothing is consumed.                                        *)
expect(p, kind, context) ==
    IF is_at(p, kind) THEN bump(p)
    ELSE [p EXCEPT !.diagnostics =
            Append(@, [expected |-> kind, context |-> context,
                       at |-> SkipTrivia(p.tokens, p.cursor)])]

SymbolOf(kind) ==
    CASE kind = "Sym_Eq" -> "Eq"
      [] kind = "Sym_Plus" -> "Plus"
      [] OTHER -> "NotASymbol"

(* expr::expr(parser, minimum_binding_power): precedence climbing; the     *)
(* left operand, already completed, is wrapped by precede().  The result   *)
(* is [p, completed].                                                      *)
ExprLhs(p) ==
    LET k == PeekKind(p)
        m == MarkerPos(p)
        q == MarkerStart(p)
    IN  CASE k = None -> MarkerComplete(q, m, "Exp_Missing")
          [] k = Some("Identifier") ->
                MarkerComplete(bump(q), m, "Exp_VariableRef")
          [] k = Some("Lit_Integer") ->
                MarkerComplete(bump(q), m, "Exp_Literal")
          [] OTHER -> MarkerComplete(bump(q), m, "Exp_UnexpectedToken")

RECURSIVE ExprLoop(_, _, _)
ExprLoop(p, lhs, min_power) ==
    LET k == PeekKind(p)
        bp == IF k = None THEN None ELSE infix_binding_power(SymbolOf(k[1]))
    IN  IF bp = None \/ bp[1][1] < min_power
        THEN [p |-> p, completed |-> lhs]
        ELSE LET p1 == bump(p)
                 m == MarkerPos(p1)
                 p2 == MarkerPrecede(p1, lhs)
                 p3 == LET q == ExprLhs(p2)
                       IN  ExprLoop(q, MarkerPos(p2), bp[1][2]).p
             IN  ExprLoop(MarkerComplete(p3, m, "Exp_Binary"), m, min_power)

expr(p, min_power) == ExprLoop(ExprLhs(p), MarkerPos(p), min_power)

(* A binding that expects `=` before the identifier. *)
global_binding_swapped(p) ==
    LET m == MarkerPos(p)
        p1 == bump(MarkerStart(p))
        p2 == expect(p1, "Sym_Eq", "Dec_GlobalBinding")
        p3 == expect(p2, "Identifier", "Dec_GlobalBinding")
        p4 == expr(p3, 0).p
    IN  [p |-> MarkerComplete(p4, m, "Dec_GlobalBinding"), completed |-> m]

(* global_binding (decl.rs, lines 11-22) *)
global_binding(p) ==
    LET m == MarkerPos(p)
        p1 == bump(MarkerStart(p))
        p2 == expect(p1, "Identifier", "Dec_GlobalBinding")
        p3 == expect(p2, "Sym_Eq", "Dec_GlobalBinding")
        p4 == expr(p3, 0).p
    IN  [p |-> MarkerComplete(p4, m, "Dec_GlobalBinding"), completed |-> m]

(* decl (decl.rs, lines 3-9) *)
decl(p) ==
    IF is_at(p, "Kwd_Let") THEN global_binding(p) ELSE expr(p, 0)

(* The root: declarations until the significant tokens are used up. *)
RECURSIVE RootLoop(_)
RootLoop(p) == IF is_at_end(p) THEN p ELSE RootLoop(decl(p).p)

ParserParse(toks) ==
    LET p == ParserNew(toks)
    IN  MarkerComplete(RootLoop(MarkerStart(p)), MarkerPos(p), "Root")

(* parse(): lex, run the grammar, hand tokens and events to Sink::new. *)
HeliosParse ==
    /\ sphase = "parse"
    /\ LET p == ParserParse(tokens) IN
         /\ events' = p.events
         /\ events0' = p.events
         /\ taken' = [k \in 1..Len(p.events) |-> 0]
         /\ diagnostics' = p.diagnostics
    /\ sphase' = "sink"
    /\ UNCHANGED <<tokens, cursor, i, parents, children, tree, koiVars,
                   diagVars, lookVars, fmtVars, symVars, curVars>>

-----------------------------------------------------------------------------
(* koi-syntax: tokens.  A kind is a pair, <<"Symbol", "Plus">> for         *)
(* TokenKind::Symbol(Symbol::Plus).                                        *)

KIdentifier == <<"Identifier", "">>
KEof == <<"Eof", "">>
KKeyword(keyword) == <<"Keyword", keyword>>
KSymbol(symbol) == <<"Symbol", symbol>>

SyntaxToken(kind, text, start) ==
    [kind |-> kind, text |-> text, start |-> start, len |-> Len(text),
     missing |-> FALSE]

(* SyntaxToken::missing(RawSyntaxToken::with(kind, ""), zero_width(pos)) *)
MissingToken(kind, pos) ==
    [kind |-> kind, text |-> "", start |-> pos, len |-> 0, missing |-> TRUE]

-----------------------------------------------------------------------------
(* The Lexer of koi-syntax, of which the parser uses next_token,           *)
(* is_at_end and current_pos.  It is no source held here and follows the   *)
(* design document: the tokens in order, then Eof for ever; a token is     *)
(* handed out with the blank behind it.  A parser value is a record        *)
(* [src, lexed, peeked_token].                                             *)

EndPos(k) ==
    IF k.src = <<>> THEN 0
    ELSE k.src[Len(k.src)].start + k.src[Len(k.src)].len

lexer_next_token(k) ==
    IF k.lexed < Len(k.src)
    THEN [k |-> [k EXCEPT !.lexed = @ + 1], token |-> k.src[k.lexed + 1]]
    ELSE [k |-> k, token |-> SyntaxToken(KEof, "", EndPos(k))]

lexer_is_at_end(k) == k.lexed >= Len(k.src)

lexer_current_pos(k) ==
    IF k.lexed < Len(k.src) THEN k.src[k.lexed + 1].start ELSE EndPos(k)

-----------------------------------------------------------------------------
(* Parser (koi-syntax parser.rs).  Every operation returns the parser      *)
(* value it leaves behind as k, beside its result.                         *)

(* A peek that asks the lexer every time. *)
peek_refilling(k) ==
    LET n == lexer_next_token(k) IN
    [k |-> [n.k EXCEPT !.peeked_token = Some(n.token)], token |-> n.token]

(* Parser::peek (lines 34-40) *)
peek(k) ==
    IF k.peeked_token = None
    THEN LET n == lexer_next_token(k) IN
         [k |-> [n.k EXCEPT !.peeked_token = Some(n.token)],
          token |-> n.token]
    ELSE [k |-> k, token |-> k.peeked_token[1]]

(* Parser::next_token (lines 43-48) *)
next_token(k) ==
    IF k.peeked_token # None
    THEN [k |-> [k EXCEPT !.peeked_token = None],
          token |-> k.peeked_token[1]]
    ELSE lexer_next_token(k)

(* Parser::check (lines 51-56) *)
check(k, kind) ==
    LET r == peek(k) IN [k |-> r.k, result |-> r.token.kind = kind]

(* Parser::consume (lines 71-85): peek always gives Some, the panic behind *)
(* the `if let` is not reached.                                            *)
consume(k, kind) ==
    LET pos == lexer_current_pos(k)
        r == peek(k)
    IN  IF r.token.kind = kind
        THEN next_token(r.k)
        ELSE [k |-> r.k, token |-> MissingToken(kind, pos)]

(* Parser::consume_optional (lines 89-96) *)
consume_optional(k, kind) ==
    LET c == check(k, kind) IN
    IF c.result THEN [k |-> next_token(c.k).k, result |-> TRUE]
    ELSE [k |-> c.k, result |-> FALSE]

(* Parser::parse_primary (lines 211-228) *)
parse_primary(k) ==
    LET t == next_token(k)
        tag == t.token.kind[1]
    IN  [k |-> t.k,
         node |->
           CASE tag = "Identifier" ->
                  [type |-> "IdentifierExpressionNode", identifier |-> t.token]
             [] t.token.kind = KKeyword("Unimplemented") ->
                  [type |-> "UnimplementedExpressionNode", token |-> t.token]
             [] tag = "Literal" ->
                  [type |-> "LiteralExpressionNode", literal |-> t.token]
             [] tag = "Error" ->
                  [type |-> "ErrorExpressionNode", token |-> t.token]
             [] OTHER ->
                  [type |-> "UnexpectedTokenNode", token |-> t.token]]

RECURSIVE parse_expression(_), parse_let_expression(_),
          parse_if_expression(_), parse_else_clause(_),
          parse_binary_expression(_, _), BinaryLoop(_, _, _),
          parse_unary_expression(_)

(* Parser::parse_expression (lines 108-118) *)
parse_expression(k) ==
    LET c1 == check(k, KKeyword("Let"))
        c2 == check(c1.k, KKeyword("If"))
    IN  IF c1.result THEN parse_let_expression(c1.k)
        ELSE IF c2.result THEN parse_if_expression(c2.k)
        ELSE parse_binary_expression(c2.k, 0)

(* Parser::parse_let_expression (lines 120-127): the fields are evaluated  *)
(* in the order written.                                                   *)
parse_let_expression(k) ==
    LET let_keyword == next_token(k)
        identifier == consume(let_keyword.k, KIdentifier)
        equal_symbol == consume(identifier.k, KSymbol("Eq"))
        expression == parse_expression(equal_symbol.k)
    IN  [k |-> expression.k,
         node |-> [type |-> "LocalBindingExpressionNode",
                   let_keyword |-> let_keyword.token,
                   identifier |-> identifier.token,
                   equal_symbol |-> equal_symbol.token,
                   expression |-> expression.node]]

(* Parser::parse_if_expression (lines 129-144) *)
parse_if_expression(k) ==
    LET if_keyword == next_token(k)
        condition == parse_expression(if_keyword.k)
        open_brace == consume(condition.k, KSymbol("LBrace"))
        expression == parse_expression(open_brace.k)
        close_brace == consume(expression.k, KSymbol("RBrace"))
        c == check(close_brace.k, KKeyword("Else"))
        else_clause == parse_else_clause(c.k)
    IN  [k |-> IF c.result THEN else_clause.k ELSE c.k,
         node |-> [type |-> "IfExpressionNode",
                   if_keyword |-> if_keyword.token,
                   condition |-> condition.node,
                   open_brace |-> open_brace.token,
                   expression |-> expression.node,
                   close_brace |-> close_brace.token,
                   else_clause |-> IF c.result THEN Some(else_clause.node)
                                   ELSE None]]

(* Parser::parse_else_clause (lines 146-153) *)
parse_else_clause(k) ==
    LET else_keyword == next_token(k)
        open_brace == consume(else_keyword.k, KSymbol("LBrace"))
        expression == parse_expression(open_brace.k)
        close_brace == consume(expression.k, KSymbol("RBrace"))
    IN  [k |-> close_brace.k,
         node |-> [type |-> "ElseClauseExpressionNode",
                   else_keyword |-> else_keyword.token,
                   open_brace |-> open_brace.token,
                   expression |-> expression.node,
                   close_brace |-> close_brace.token]]

(* Parser::parse_binary_expression (lines 155-184) *)
parse_binary_expression(k, min_precedence) ==
    LET lhs == parse_unary_expression(k)
    IN  BinaryLoop(lhs.k, lhs.node, min_precedence)

(* A loop that parses the right operand with the operator's left power. *)
RECURSIVE BinaryLoopLeftPower(_, _, _)
BinaryLoopLeftPower(k, lhs, min_precedence) ==
    LET r == peek(k)
        power == IF r.token.kind[1] = "Symbol"
                 THEN infix_binding_power(r.token.kind[2]) ELSE None
    IN  IF power = None \/ power[1][1] < min_precedence
        THEN [k |-> r.k, node |-> lhs]
        ELSE LET operator == next_token(r.k)
                 u == parse_unary_expression(operator.k)
                 rhs == BinaryLoopLeftPower(u.k, u.node, power[1][1])
             IN  BinaryLoopLeftPower(rhs.k,
                            [type |-> "BinaryExpressionNode",
                             operator |-> operator.token,
                             lhs |-> lhs,
                             rhs |-> rhs.node],
                            min_precedence)

(* The `loop` of parse_binary_expression (lines 158-181) *)
BinaryLoop(k, lhs, min_precedence) ==
    LET r == peek(k)
        power == IF r.token.kind[1] = "Symbol"
                 THEN infix_binding_power(r.token.kind[2]) ELSE None
    IN  IF power = None \/ power[1][1] < min_precedence
        THEN [k |-> r.k, node |-> lhs]
        ELSE LET operator == next_token(r.k)
                 rhs == parse_binary_expression(operator.k, power[1][2])
             IN  BinaryLoop(rhs.k,
                            [type |-> "BinaryExpressionNode",
                             operator |-> operator.token,
                             lhs |-> lhs,
                             rhs |-> rhs.node],
                            min_precedence)

(* Parser::parse_unary_expression (lines 186-209) *)
parse_unary_expression(k) ==
    LET r == peek(k) IN
    IF r.token.kind[1] = "Symbol"
    THEN LET token == next_token(r.k)
             power == prefix_binding_power(r.token.kind[2])
         IN  IF power # None
             THEN LET operand == parse_binary_expression(token.k, power[1])
                  IN  [k |-> operand.k,
                       node |-> [type |-> "UnaryExpressionNode",
                                 operator |-> token.token,
                                 operand |-> operand.node]]
             ELSE LET n == lexer_next_token(token.k)
                  IN  [k |-> n.k,
                       node |-> [type |-> "UnexpectedTokenNode",
                                 token |-> n.token]]
    ELSE parse_primary(r.k)

(* Parser::parse_program (lines 100-106) *)
parse_program(k) ==
    LET c == consume_optional(k, KEof) IN
    IF c.result THEN [k |-> c.k, node |-> [type |-> "Eof"]]
    ELSE LET e == parse_expression(c.k)
         IN  [k |-> e.k,
              node |-> [type |-> "ExpressionNode", expression |-> e.node]]

TheParser ==
    [src |-> src, lexed |-> lexed, peeked_token |-> peeked_token]

(* Parser::parse (lines 21-29): one turn of the loop. *)
KoiParseProgram ==
    /\ kphase = "parse"
    /\ ~lexer_is_at_end(TheParser)
    /\ LET r == parse_program(TheParser) IN
         /\ nodes' = Append(nodes, r.node)
         /\ lexed' = r.k.lexed
         /\ peeked_token' = r.k.peeked_token
    /\ UNCHANGED <<src, kphase, sinkVars, diagVars, lookVars, fmtVars,
                   symVars, curVars>>

(* Parser::parse: the loop ends and SyntaxTree(nodes) is returned. *)
KoiParseReturn ==
    /\ kphase = "parse"
    /\ lexer_is_at_end(TheParser)
    /\ kphase' = "done"
    /\ UNCHANGED <<src, lexed, peeked_token, nodes, sinkVars, diagVars,
                   lookVars, fmtVars, symVars, curVars>>

KoiNext == KoiParseProgram \/ KoiParseReturn

-----------------------------------------------------------------------------
(* helios-diagnostics: Severity (diagnostic.rs lines 20-27).               *)

Severity == {"Bug", "Error", "Warning", "Note"}

(* The variants in the order the enum declares them. *)
Declared == <<"Bug", "Error", "Warning", "Note">>

(* `#[repr(u8)]` with explicit discriminants. *)
discriminant(s) ==
    CASE s = "Bug" -> 3
      [] s = "Error" -> 2
      [] s = "Warning" -> 1
      [] s = "Note" -> 0

(* An order that follows the position in the declaration. *)
lt_declared(a, b) ==
    (CHOOSE k \in 1..Len(Declared) : Declared[k] = a)
        < (CHOOSE k \in 1..Len(Declared) : Declared[k] = b)

(* `#[derive(PartialOrd, Ord)]` on an enum orders by discriminant. *)
lt(a, b) == discriminant(a) < discriminant(b)

(* One turn of `for severity in .. { is_ok &= *severity < Severity::Error }` *)
CompareSeverity ==
    /\ checked < Len(severities)
    /\ is_ok' = (is_ok /\ lt(severities[checked + 1], "Error"))
    /\ checked' = checked + 1
    /\ UNCHANGED <<severities, sinkVars, koiVars, lookVars, fmtVars, symVars,
                   curVars>>

DiagNext == CompareSeverity

DiagOff ==
    /\ severities = <<>>
    /\ checked = 0
    /\ is_ok = TRUE

LookOff ==
    /\ returned = <<>>
    /\ last_peek = None

CurOff ==
    /\ cur_chars = <<>>
    /\ cur_pos = <<>>
    /\ cur_consumed = <<>>
    /\ cur_last = <<>>

SymOff ==
    /\ sym_chars = <<>>
    /\ sym_called = "off"
    /\ sym_kind = <<>>

FmtOff ==
    /\ segments = <<>>
    /\ colorize = FALSE
    /\ out = ""
    /\ written = 0
    /\ tphase = "off"
    /\ diag = <<>>
    /\ last_call = <<>>

KoiOff ==
    /\ src = <<>>
    /\ lexed = 0
    /\ peeked_token = None
    /\ nodes = <<>>
    /\ kphase = "off"

SinkOff ==
    /\ tokens = <<>>
    /\ events = <<>>
    /\ cursor = 0
    /\ i = 0
    /\ parents = <<>>
    /\ children = <<>>
    /\ tree = <<>>
    /\ sphase = "off"
    /\ events0 = <<>>
    /\ taken = <<>>
    /\ diagnostics = <<>>

(* The sources: words and symbols with one blank between them. *)
KoiKinds ==
    {KIdentifier, KKeyword("Let"), KSymbol("Eq"), KSymbol("Plus"),
     KSymbol("Minus"), KSymbol("Asterisk"), KSymbol("ForwardSlash")}

KoiNames ==
    <<"a", "foo", "b", "bar", "c", "baz", "d", "qux", "e", "quux", "f",
      "corge">>

KoiText(kind, k) ==
    CASE kind = KIdentifier -> KoiNames[k]
      [] kind = KKeyword("Let") -> "let"
      [] kind = KSymbol("Eq") -> "="
      [] kind = KSymbol("Plus") -> "+"
      [] kind = KSymbol("Minus") -> "-"
      [] kind = KSymbol("Asterisk") -> "*"
      [] kind = KSymbol("ForwardSlash") -> "/"
      [] kind = KSymbol("Semicolon") -> ";"
      [] kind = KSymbol("LThinArrow") -> "<-"
      [] kind = KSymbol("BangEq") -> "!="
      [] kind = KSymbol("Lt") -> "<"
      [] kind = KSymbol("Gt") -> ">"
      [] kind = KSymbol("LtEq") -> "<="
      [] kind = KSymbol("GtEq") -> ">="
      [] kind = KSymbol("Bang") -> "!"

RECURSIVE KoiSource(_, _, _)
KoiSource(kinds, k, start) ==
    IF k > Len(kinds) THEN <<>>
    ELSE LET t == SyntaxToken(kinds[k], KoiText(kinds[k], k), start)
         IN  <<t>> \o KoiSource(kinds, k + 1, start + t.len + 1)

(* Parser::with(Lexer::with(source)) *)
KoiInit ==
    /\ \E kinds \in SeqsUpTo(KoiKinds, MaxKoiLen) :
          src = KoiSource(kinds, 1, 0)
    /\ lexed = 0
    /\ peeked_token = None
    /\ nodes = <<>>
    /\ kphase = "parse"
    /\ SinkOff
    /\ DiagOff
    /\ LookOff
    /\ CurOff
    /\ FmtOff
    /\ SymOff

SpecKoi == KoiInit /\ [][KoiNext]_vars

-----------------------------------------------------------------------------
(* The lookahead of the koi-syntax Parser on its own: peek, next_token and *)
(* consume_optional called in any order, as the parse functions do.        *)

(* a call of self.peek() *)
CallPeek ==
    /\ kphase = "calls"
    /\ LET r == peek(TheParser) IN
         /\ lexed' = r.k.lexed
         /\ peeked_token' = r.k.peeked_token
         /\ last_peek' = Some(r.token)
    /\ UNCHANGED <<src, nodes, kphase, returned, sinkVars, diagVars, fmtVars,
                   symVars, curVars>>

(* a call of self.next_token(); the model stops one Eof behind the source *)
CallNextToken ==
    /\ kphase = "calls"
    /\ Len(returned) <= Len(src)
    /\ LET r == next_token(TheParser) IN
         /\ lexed' = r.k.lexed
         /\ peeked_token' = r.k.peeked_token
         /\ returned' = Append(returned, r.token)
    /\ last_peek' = None
    /\ UNCHANGED <<src, nodes, kphase, sinkVars, diagVars, fmtVars, symVars,
                   curVars>>

(* a call of self.consume_optional(kind): the token it takes is the one   *)
(* its check has peeked                                                    *)
CallConsumeOptional ==
    /\ kphase = "calls"
    /\ Len(returned) <= Len(src)
    /\ \E kind \in KoiKinds \cup {KEof} :
         LET c == check(TheParser, kind)
             r == consume_optional(TheParser, kind)
         IN  /\ lexed' = r.k.lexed
             /\ peeked_token' = r.k.peeked_token
             /\ returned' = IF r.result
                            THEN Append(returned, next_token(c.k).token)
                            ELSE returned
             /\ last_peek' = IF r.result THEN None
                             ELSE c.k.peeked_token
    /\ UNCHANGED <<src, nodes, kphase, sinkVars, diagVars, fmtVars, symVars,
                   curVars>>

LookNext == CallPeek \/ CallNextToken \/ CallConsumeOptional

LookInit ==
    /\ \E kinds \in SeqsUpTo(KoiKinds, MaxLookLen) :
          src = KoiSource(kinds, 1, 0)
    /\ lexed = 0
    /\ peeked_token = None
    /\ nodes = <<>>
    /\ kphase = "calls"
    /\ LookOff
    /\ CurOff
    /\ FmtOff
    /\ SymOff
    /\ SinkOff
    /\ DiagOff

SpecLook == LookInit /\ [][LookNext]_vars

-----------------------------------------------------------------------------
(* The koi-syntax parser over operator expressions: operands joined by     *)
(* infix operators of the binding-power table, each operand an identifier  *)
(* with or without a prefix operator in front.                             *)

InfixSymbols ==
    {"Semicolon", "LThinArrow", "Eq", "BangEq", "Lt", "Gt", "LtEq", "GtEq",
     "Plus", "Minus", "Asterisk", "ForwardSlash"}

PrefixSymbols == {"Minus", "Bang"}

Operand(prefix) ==
    IF prefix = None THEN <<KIdentifier>>
    ELSE <<KSymbol(prefix[1]), KIdentifier>>

(* The kinds of `operand (operator operand)*`. *)
RECURSIVE OperatorExpression(_, _, _)
OperatorExpression(operators, prefixes, k) ==
    Operand(prefixes[k])
    \o (IF k > Len(operators) THEN <<>>
        ELSE <<KSymbol(operators[k])>>
             \o OperatorExpression(operators, prefixes, k + 1))

PrattInit ==
    /\ \E n \in 0..MaxOperators :
         \E operators \in [1..n -> InfixSymbols],
            prefixes \in [1..(n + 1) ->
                            {None} \cup {Some(x) : x \in PrefixSymbols}] :
            src = KoiSource(OperatorExpression(operators, prefixes, 1), 1, 0)
    /\ lexed = 0
    /\ peeked_token = None
    /\ nodes = <<>>
    /\ kphase = "parse"
    /\ SinkOff
    /\ DiagOff
    /\ LookOff
    /\ CurOff
    /\ FmtOff
    /\ SymOff

SpecPratt == PrattInit /\ [][KoiNext]_vars

-----------------------------------------------------------------------------
(* Sink::new over arbitrary event logs and token streams.                  *)

(* The sink never inspects a kind: the k-th event's kind names its place.  *)
KindAt(k) == <<"K0", "K1", "K2", "K3", "K4", "K5">>[k]

EventShapes ==
    {StartNode("K", fp) : fp \in {None} \cup {Some(o) : o \in 0..MaxEvents}}
    \cup {AddToken("Identifier", "x"), FinishNode, Placeholder}

Relabel(evs) ==
    [k \in 1..Len(evs) |->
        IF evs[k].type = "StartNode"
        THEN StartNode(KindAt(k), evs[k].forward_parent)
        ELSE evs[k]]

ArbitraryLogs == {Relabel(evs) : evs \in SeqsUpTo(EventShapes, MaxEvents)}

ArbitraryTokens ==
    SeqsUpTo({Token("Identifier", "x"), Token("Whitespace", " "),
              Token("Lit_Integer", "10")},
             MaxSinkTokens)

(* Sink::new (lines 14-24) *)
SinkNew(toks, evs) ==
    /\ tokens = toks
    /\ events = evs
    /\ cursor = 0
    /\ i = 0
    /\ parents = <<>>
    /\ children = <<>>
    /\ tree = <<>>
    /\ events0 = evs
    /\ taken = [k \in 1..Len(evs) |-> 0]

SinkInit ==
    /\ \E toks \in ArbitraryTokens, evs \in ArbitraryLogs : SinkNew(toks, evs)
    /\ sphase = "sink"
    /\ diagnostics = <<>>
    /\ KoiOff
    /\ DiagOff
    /\ LookOff
    /\ CurOff
    /\ FmtOff
    /\ SymOff

SpecSink == SinkInit /\ [][SinkNext]_vars

-----------------------------------------------------------------------------
(* The whole pipeline of helios-parser over lexable sources.  A source is  *)
(* a sequence of significant tokens, with trivia in front, between and     *)
(* behind.                                                                 *)

SigKinds == {"Kwd_Let", "Identifier", "Sym_Eq", "Lit_Integer", "Sym_Plus"}

IdentNames ==
    {<<"foo", "bar", "baz", "qux", "quux", "corge">>,
     <<"a", "b", "c", "d", "e", "f">>}

WordLike(kind) == kind \in {"Kwd_Let", "Identifier", "Lit_Integer"}

TextOf(sig, k, names) ==
    CASE sig[k] = "Kwd_Let" -> "let"
      [] sig[k] = "Sym_Eq" -> "="
      [] sig[k] = "Sym_Plus" -> "+"
      [] sig[k] = "Lit_Integer" -> "10"
      [] OTHER -> names[Cardinality({j \in 1..k : sig[j] = "Identifier"})]

Whitespace == Token("Whitespace", " ")
Newline == Token("Newline", "\n")
Comment == Token("Comment", "// comment")

(* The tokens of a source: `spaced` puts a blank between any two           *)
(* significant tokens, otherwise only where two words would run together.  *)
RECURSIVE Lexed(_, _, _, _)
Lexed(sig, k, names, spaced) ==
    IF k > Len(sig) THEN <<>>
    ELSE <<Token(sig[k], TextOf(sig, k, names))>>
         \o (IF k < Len(sig)
                /\ (spaced \/ (WordLike(sig[k]) /\ WordLike(sig[k + 1])))
             THEN <<Whitespace>> ELSE <<>>)
         \o Lexed(sig, k + 1, names, spaced)

SourceTokens(sig, names, lead, spaced, trail) ==
    (IF lead THEN <<Comment, Newline>> ELSE <<>>)
    \o Lexed(sig, 1, names, spaced)
    \o (IF trail THEN <<Newline>> ELSE <<>>)

HeliosInit ==
    /\ \E sig \in SeqsUpTo(SigKinds, MaxSig), names \in IdentNames,
          lead \in BOOLEAN, spaced \in BOOLEAN, trail \in BOOLEAN :
            tokens = SourceTokens(sig, names, lead, spaced, trail)
    /\ events = <<>>
    /\ cursor = 0
    /\ i = 0
    /\ parents = <<>>
    /\ children = <<>>
    /\ tree = <<>>
    /\ events0 = <<>>
    /\ taken = <<>>
    /\ sphase = "parse"
    /\ diagnostics = <<>>
    /\ KoiOff
    /\ DiagOff
    /\ LookOff
    /\ CurOff
    /\ FmtOff
    /\ SymOff

HeliosNext == HeliosParse \/ SinkNext

SpecHelios == HeliosInit /\ [][HeliosNext]_vars

-----------------------------------------------------------------------------
(* Both parsers over their sources: either front end is started on one of  *)
(* its inputs and runs to its end.                                         *)
FrontEndInit == HeliosInit \/ KoiInit

FrontEndNext == HeliosNext \/ KoiNext

SpecFrontEnd == FrontEndInit /\ [][FrontEndNext]_vars

-----------------------------------------------------------------------------
(* Severity checks over every slice of severities up to a length.          *)
DiagInit ==
    /\ severities \in SeqsUpTo(Severity, MaxSeverities)
    /\ checked = 0
    /\ is_ok = TRUE
    /\ SinkOff
    /\ KoiOff
    /\ LookOff
    /\ CurOff
    /\ FmtOff
    /\ SymOff

SpecDiag == DiagInit /\ [][DiagNext]_vars

-----------------------------------------------------------------------------
(* helios-diagnostics: FormattedText (diagnostic.rs lines 35-168).  A      *)
(* FormattedText is modelled by its one field, the sequence of segments.   *)

LineBreak == [seg |-> "LineBreak"]
Text(t) == [seg |-> "Text", text |-> t]
Code(c) == [seg |-> "Code", code |-> c]
CodeBlock(c) == [seg |-> "CodeBlock", block |-> c]
List(lines) == [seg |-> "List", lines |-> lines]

SegmentVariants == {"LineBreak", "Text", "Code", "CodeBlock", "List"}

(* `.yellow()` of the colored crate: the text between two escape codes. *)
yellow(s) == "ESC[33m" \o s \o "ESC[0m"

(* A code block that is pushed with no line break around it. *)
ft_code_block_bare(self, c) == Append(self, CodeBlock(c))

(* FormattedText::text (lines 118-121) *)
ft_text(self, t) == Append(self, Text(t))

(* FormattedText::code (lines 123-126) *)
ft_code(self, c) == Append(self, Code(c))

(* FormattedText::code_block (lines 128-133) *)
ft_code_block(self, c) ==
    Append(Append(Append(self, LineBreak), CodeBlock(c)), LineBreak)

(* FormattedText::list (lines 135-140) *)
ft_list(self, list) ==
    Append(Append(Append(self, LineBreak), List(list)), LineBreak)

(* FormattedText::line_break (lines 142-145) *)
ft_line_break(self) == Append(self, LineBreak)

RECURSIVE fmt_segment(_, _), fmt_text(_, _), fmt_lines(_, _),
          fmt_segment_flat(_, _), fmt_lines_flat(_, _)

(* A rendering that writes the lines of a list with no indentation. *)
fmt_segment_flat(s, col) ==
    CASE s.seg = "LineBreak" -> "\n\n"
      [] s.seg = "Text" -> s.text
      [] s.seg = "Code" -> IF col THEN yellow(s.code) ELSE s.code
      [] s.seg = "CodeBlock" ->
            "    " \o (IF col THEN yellow(s.block) ELSE s.block)
      [] s.seg = "List" -> fmt_lines_flat(s.lines, col)

fmt_lines_flat(lines, col) ==
    IF lines = <<>> THEN ""
    ELSE fmt_text(lines[1], col) \o "\n" \o fmt_lines_flat(Tail(lines), col)

(* impl Display for FormattedTextSegment (lines 62-92) *)
fmt_segment(s, col) ==
    CASE s.seg = "LineBreak" -> "\n\n"
      [] s.seg = "Text" -> s.text
      [] s.seg = "Code" -> IF col THEN yellow(s.code) ELSE s.code
      [] s.seg = "CodeBlock" ->
            "    " \o (IF col THEN yellow(s.block) ELSE s.block)
      [] s.seg = "List" -> fmt_lines(s.lines, col)

(* `for line in lines { write!(f, "    {}\n", line)?; }` (lines 84-86) *)
fmt_lines(lines, col) ==
    IF lines = <<>> THEN ""
    ELSE "    " \o fmt_text(lines[1], col) \o "\n"
         \o fmt_lines(Tail(lines), col)

(* impl Display for FormattedText (lines 160-168), the whole loop *)
fmt_text(segs, col) ==
    IF segs = <<>> THEN ""
    ELSE fmt_segment(segs[1], col) \o fmt_text(Tail(segs), col)

(* The arguments the builder is called with. *)
Texts == {"note: "}
Codes == {"x"}
ItemA == <<Text("a")>>
ItemB == <<Text("b"), Code("y")>>
Lists == {<<>>, <<ItemA>>, <<ItemA, ItemB>>}

Building == tphase = "build" /\ Len(segments) < MaxSegments

Built(segs, call) ==
    /\ segments' = segs
    /\ last_call' = call
    /\ UNCHANGED <<colorize, out, written, tphase, diag, sinkVars, koiVars,
                   diagVars, lookVars, symVars, curVars>>

CallText ==
    Building /\ \E t \in Texts :
        Built(ft_text(segments, t), <<"text", t>>)

CallCode ==
    Building /\ \E c \in Codes :
        Built(ft_code(segments, c), <<"code", c>>)

CallCodeBlock ==
    Building /\ \E c \in Codes :
        Built(ft_code_block(segments, c), <<"code_block", c>>)

CallList ==
    Building /\ \E l \in Lists : Built(ft_list(segments, l), <<"list", l>>)

CallLineBreak == Building /\ Built(ft_line_break(segments), <<"line_break">>)

(* `write!(f, "{}", text)`: fmt is entered with an empty buffer. *)
FmtEnter ==
    /\ tphase = "build"
    /\ tphase' = "fmt"
    /\ colorize' \in BOOLEAN
    /\ out' = ""
    /\ written' = 0
    /\ last_call' = <<"fmt">>
    /\ UNCHANGED <<segments, diag, sinkVars, koiVars, diagVars, lookVars,
                   symVars, curVars>>

(* One turn of `for segment in &self.segments { write!(..)?; }` *)
FmtWrite ==
    /\ tphase = "fmt"
    /\ written < Len(segments)
    /\ out' = out \o fmt_segment(segments[written + 1], colorize)
    /\ written' = written + 1
    /\ UNCHANGED <<segments, colorize, tphase, diag, last_call, sinkVars,
                   koiVars, diagVars, lookVars, symVars, curVars>>

TextNext ==
    \/ CallText
    \/ CallCode
    \/ CallCodeBlock
    \/ CallList
    \/ CallLineBreak
    \/ FmtEnter
    \/ FmtWrite

(* FormattedText::default() *)
TextInit ==
    /\ segments = <<>>
    /\ colorize = FALSE
    /\ out = ""
    /\ written = 0
    /\ tphase = "build"
    /\ diag = <<>>
    /\ last_call = <<>>
    /\ SinkOff
    /\ KoiOff
    /\ DiagOff
    /\ LookOff
    /\ CurOff
    /\ SymOff

SpecText == TextInit /\ [][TextNext]_vars

-----------------------------------------------------------------------------
(* helios-diagnostics: Location and Diagnostic (diagnostic.rs lines 5-18   *)
(* and 172-268).  FileId is a number, its Default 0; a Range is a pair.    *)

(* Location::new (lines 12-17) *)
Location(file_id, start, end) ==
    [file_id |-> file_id, range |-> <<start, end>>]

(* impl Default for Severity (lines 29-33) *)
SeverityDefault == "Note"

(* #[derive(Default)] of Location, FormattedText and Diagnostic *)
DiagnosticDefault ==
    [location |-> Location(0, 0, 0),
     severity |-> SeverityDefault,
     title |-> "",
     description |-> None,
     message |-> <<>>,
     hint |-> None]

(* Diagnostic::bug, error, warning, note (lines 204-234) *)
diagnostic_bug(title) ==
    [DiagnosticDefault EXCEPT !.severity = "Bug", !.title = title]

diagnostic_error(title) ==
    [DiagnosticDefault EXCEPT !.severity = "Error", !.title = title]

diagnostic_warning(title) ==
    [DiagnosticDefault EXCEPT !.severity = "Warning", !.title = title]

diagnostic_note(title) ==
    [DiagnosticDefault EXCEPT !.severity = "Note", !.title = title]

(* A setter of the description that takes the message along. *)
set_description_and_message(self, description) ==
    [self EXCEPT !.description = Some(description), !.message = description]

(* Diagnostic::severity (lines 236-239) *)
set_severity(self, severity) == [self EXCEPT !.severity = severity]

(* Diagnostic::title (lines 241-244) *)
set_title(self, title) == [self EXCEPT !.title = title]

(* Diagnostic::description (lines 246-252) *)
set_description(self, description) ==
    [self EXCEPT !.description = Some(description)]

(* Diagnostic::message (lines 254-257) *)
set_message(self, message) == [self EXCEPT !.message = message]

(* Diagnostic::location (lines 259-262) *)
set_location(self, location) == [self EXCEPT !.location = location]

(* Diagnostic::hint (lines 264-267) *)
set_hint(self, hint) == [self EXCEPT !.hint = Some(hint)]

(* The arguments the calls are made with. *)
Titles == {"unexpected token", "unused binding"}
Messages == {ItemA, ItemB}
Locations == {Location(1, 4, 7)}

Returned(d, call) ==
    /\ diag' = d
    /\ last_call' = call
    /\ UNCHANGED <<segments, colorize, out, written, tphase, sinkVars,
                   koiVars, diagVars, lookVars, symVars, curVars>>

Constructing == tphase = "diag"

CallBug ==
    Constructing /\ \E t \in Titles : Returned(diagnostic_bug(t), <<"bug", t>>)

CallError ==
    Constructing /\ \E t \in Titles :
        Returned(diagnostic_error(t), <<"error", t>>)

CallWarning ==
    Constructing /\ \E t \in Titles :
        Returned(diagnostic_warning(t), <<"warning", t>>)

CallNote ==
    Constructing /\ \E t \in Titles :
        Returned(diagnostic_note(t), <<"note", t>>)

CallSeverity ==
    Constructing /\ \E s \in Severity :
        Returned(set_severity(diag, s), <<"severity", s>>)

CallTitle ==
    Constructing /\ \E t \in Titles :
        Returned(set_title(diag, t), <<"title", t>>)

CallDescription ==
    Constructing /\ \E m \in Messages :
        Returned(set_description(diag, m), <<"description", m>>)

CallMessage ==
    Constructing /\ \E m \in Messages :
        Returned(set_message(diag, m), <<"message", m>>)

CallLocation ==
    Constructing /\ \E l \in Locations :
        Returned(set_location(diag, l), <<"location", l>>)

CallHint ==
    Constructing /\ \E m \in Messages :
        Returned(set_hint(diag, m), <<"hint", m>>)

BuilderNext ==
    \/ CallBug
    \/ CallError
    \/ CallWarning
    \/ CallNote
    \/ CallSeverity
    \/ CallTitle
    \/ CallDescription
    \/ CallMessage
    \/ CallLocation
    \/ CallHint

(* Diagnostic::default() *)
BuilderInit ==
    /\ diag = DiagnosticDefault
    /\ last_call = <<"default">>
    /\ tphase = "diag"
    /\ segments = <<>>
    /\ colorize = FALSE
    /\ out = ""
    /\ written = 0
    /\ SinkOff
    /\ KoiOff
    /\ DiagOff
    /\ LookOff
    /\ CurOff
    /\ SymOff

SpecBuilder == BuilderInit /\ [][BuilderNext]_vars

-----------------------------------------------------------------------------
(* koi-syntax: symbols (syntax.rs).  A char is a string of one character;  *)
(* the three characters outside ASCII are named by their code points.  A   *)
(* spelling is a sequence of chars.                                        *)

(* symbol_from_char with `{` taken for a parenthesis. *)
symbol_from_char_paren(c) ==
    CASE c = "{" -> "Sym_LParen"
      [] c = "&" -> "Sym_Ampersand"
      [] c = "*" -> "Sym_Asterisk"
      [] c = "@" -> "Sym_At"
      [] c = "\\" -> "Sym_BackSlash"
      [] c = "!" -> "Sym_Bang"
      [] c = "^" -> "Sym_Caret"
      [] c = ":" -> "Sym_Colon"
      [] c = "," -> "Sym_Comma"
      [] c = "$" -> "Sym_Dollar"
      [] c = "." -> "Sym_Dot"
      [] c = "U+2014" -> "Sym_EmDash"
      [] c = "U+2013" -> "Sym_EnDash"
      [] c = "=" -> "Sym_Eq"
      [] c = "/" -> "Sym_ForwardSlash"
      [] c = "-" -> "Sym_Minus"
      [] c = "%" -> "Sym_Percent"
      [] c = "|" -> "Sym_Pipe"
      [] c = "+" -> "Sym_Plus"
      [] c = "#" -> "Sym_Pound"
      [] c = "?" -> "Sym_Question"
      [] c = ";" -> "Sym_Semicolon"
      [] c = "U+00A3" -> "Sym_Sterling"
      [] c = "~" -> "Sym_Tilde"
      [] c = "<" -> "Sym_Lt"
      [] c = ">" -> "Sym_Gt"
      [] c = "}" -> "Sym_RBrace"
      [] c = "[" -> "Sym_LBracket"
      [] c = "]" -> "Sym_RBracket"
      [] c = "(" -> "Sym_LParen"
      [] c = ")" -> "Sym_RParen"
      [] OTHER -> "panic"

(* symbol_from_char (lines 184-219); "panic" is the panic! of line 217 *)
symbol_from_char(c) ==
    CASE c = "&" -> "Sym_Ampersand"
      [] c = "*" -> "Sym_Asterisk"
      [] c = "@" -> "Sym_At"
      [] c = "\\" -> "Sym_BackSlash"
      [] c = "!" -> "Sym_Bang"
      [] c = "^" -> "Sym_Caret"
      [] c = ":" -> "Sym_Colon"
      [] c = "," -> "Sym_Comma"
      [] c = "$" -> "Sym_Dollar"
      [] c = "." -> "Sym_Dot"
      [] c = "U+2014" -> "Sym_EmDash"
      [] c = "U+2013" -> "Sym_EnDash"
      [] c = "=" -> "Sym_Eq"
      [] c = "/" -> "Sym_ForwardSlash"
      [] c = "-" -> "Sym_Minus"
      [] c = "%" -> "Sym_Percent"
      [] c = "|" -> "Sym_Pipe"
      [] c = "+" -> "Sym_Plus"
      [] c = "#" -> "Sym_Pound"
      [] c = "?" -> "Sym_Question"
      [] c = ";" -> "Sym_Semicolon"
      [] c = "U+00A3" -> "Sym_Sterling"
      [] c = "~" -> "Sym_Tilde"
      [] c = "<" -> "Sym_Lt"
      [] c = ">" -> "Sym_Gt"
      [] c = "{" -> "Sym_LBrace"
      [] c = "}" -> "Sym_RBrace"
      [] c = "[" -> "Sym_LBracket"
      [] c = "]" -> "Sym_RBracket"
      [] c = "(" -> "Sym_LParen"
      [] c = ")" -> "Sym_RParen"
      [] OTHER -> "panic"

(* symbol_from_chars (lines 221-231) *)
symbol_from_chars(cs) ==
    CASE cs = <<"!", "=">> -> Some("Sym_BangEq")
      [] cs = <<"<", "=">> -> Some("Sym_LtEq")
      [] cs = <<">", "=">> -> Some("Sym_GtEq")
      [] cs = <<"<", "-">> -> Some("Sym_LThinArrow")
      [] cs = <<"-", ">">> -> Some("Sym_RThinArrow")
      [] cs = <<"=", ">">> -> Some("Sym_ThickArrow")
      [] OTHER -> None

(* macro_rules! Sym (lines 13-51): the spellings it has a rule for *)
SymRules ==
    {<<<<"&">>, "Sym_Ampersand">>,
     <<<<"*">>, "Sym_Asterisk">>,
     <<<<"@">>, "Sym_At">>,
     <<<<"!">>, "Sym_Bang">>,
     <<<<"!", "=">>, "Sym_BangEq">>,
     <<<<"^">>, "Sym_Caret">>,
     <<<<",">>, "Sym_Comma">>,
     <<<<"$">>, "Sym_Dollar">>,
     <<<<".">>, "Sym_Dot">>,
     <<<<"U+2014">>, "Sym_EmDash">>,
     <<<<"U+2013">>, "Sym_EnDash">>,
     <<<<"=">>, "Sym_Eq">>,
     <<<<"/">>, "Sym_ForwardSlash">>,
     <<<<"-">>, "Sym_Minus">>,
     <<<<"%">>, "Sym_Percent">>,
     <<<<"|">>, "Sym_Pipe">>,
     <<<<"+">>, "Sym_Plus">>,
     <<<<"#">>, "Sym_Pound">>,
     <<<<"?">>, "Sym_Question">>,
     <<<<";">>, "Sym_Semicolon">>,
     <<<<"U+00A3">>, "Sym_Sterling">>,
     <<<<"~">>, "Sym_Tilde">>,
     <<<<"<">>, "Sym_Lt">>,
     <<<<"<", "=">>, "Sym_LtEq">>,
     <<<<">">>, "Sym_Gt">>,
     <<<<">", "=">>, "Sym_GtEq">>,
     <<<<"<", "-">>, "Sym_LThinArrow">>,
     <<<<"-", ">">>, "Sym_RThinArrow">>,
     <<<<"=", ">">>, "Sym_ThickArrow">>,
     <<<<"{">>, "Sym_LParen">>,
     <<<<"}">>, "Sym_RParen">>,
     <<<<"[">>, "Sym_LBracket">>,
     <<<<"]">>, "Sym_RBracket">>,
     <<<<"(">>, "Sym_LParen">>,
     <<<<")">>, "Sym_RParen">>}

SymSpellings == {r[1] : r \in SymRules}

(* Sym![s]: the first rule that matches the spelling *)
Sym(s) == (CHOOSE r \in SymRules : r[1] = s)[2]

(* The chars the functions are called on: the symbols and some others. *)
Chars ==
    UNION {{r[1][k] : k \in 1..Len(r[1])} : r \in SymRules}
    \cup {"\\", ":"}
    \cup {"a", "0", "_", " "}

(* a call of symbol_from_char(c) *)
CallSymbolFromChar ==
    /\ sym_called = ""
    /\ Len(sym_chars) = 1
    /\ sym_called' = "symbol_from_char"
    /\ sym_kind' = symbol_from_char(sym_chars[1])
    /\ UNCHANGED <<sym_chars, sinkVars, koiVars, diagVars, lookVars, fmtVars,
                   curVars>>

(* a call of symbol_from_chars(&chars) *)
CallSymbolFromChars ==
    /\ sym_called = ""
    /\ sym_called' = "symbol_from_chars"
    /\ sym_kind' = symbol_from_chars(sym_chars)
    /\ UNCHANGED <<sym_chars, sinkVars, koiVars, diagVars, lookVars, fmtVars,
                   curVars>>

(* Sym![s] for a spelling the macro has a rule for *)
CallSym ==
    /\ sym_called = ""
    /\ sym_chars \in SymSpellings
    /\ sym_called' = "Sym"
    /\ sym_kind' = Sym(sym_chars)
    /\ UNCHANGED <<sym_chars, sinkVars, koiVars, diagVars, lookVars, fmtVars,
                   curVars>>

SymNext == CallSymbolFromChar \/ CallSymbolFromChars \/ CallSym

SymInit ==
    /\ sym_chars \in SeqsUpTo(Chars, MaxChars)
    /\ sym_called = ""
    /\ sym_kind = <<>>
    /\ SinkOff
    /\ KoiOff
    /\ DiagOff
    /\ LookOff
    /\ CurOff
    /\ FmtOff

SpecSym == SymInit /\ [][SymNext]_vars


-----------------------------------------------------------------------------
(* koi-parser: Position and Cursor (source.rs).  A cursor value is a       *)
(* record [chars, pos]; chars holds what the iterator has not yet given.   *)

EOF_CHAR == "U+0000"

(* Position::default() *)
PositionDefault == [line |-> 0, character |-> 0]

(* Position::advance (lines 20-22) *)
position_advance(pos) == [pos EXCEPT !.character = @ + 1]

(* A line advance that keeps the column. *)
position_advance_line_keeping(pos) == [pos EXCEPT !.line = @ + 1]

(* Position::advance_line (lines 24-27) *)
position_advance_line(pos) == [line |-> pos.line + 1, character |-> 0]

(* Cursor::advance (lines 117-127) *)
cursor_advance(c) ==
    IF c.chars = <<>>
    THEN [c |-> c, result |-> None]
    ELSE LET next_char == Head(c.chars) IN
         [c |-> [chars |-> Tail(c.chars),
                 pos |-> IF next_char = "\n"
                         THEN position_advance_line(c.pos)
                         ELSE position_advance(c.pos)],
          result |-> Some(next_char)]

(* Cursor::source_len (lines 129-131) *)
cursor_source_len(c) == Len(c.chars)

(* Cursor::nth (lines 133-135) *)
cursor_nth(c, n) == IF n < Len(c.chars) THEN c.chars[n + 1] ELSE EOF_CHAR

TheCursor == [chars |-> cur_chars, pos |-> cur_pos]

(* a call of cursor.advance() *)
CallAdvance ==
    /\ cur_pos # <<>>
    /\ LET r == cursor_advance(TheCursor) IN
         /\ cur_chars' = r.c.chars
         /\ cur_pos' = r.c.pos
         /\ cur_consumed' = IF r.result = None THEN cur_consumed
                            ELSE Append(cur_consumed, r.result[1])
         /\ cur_last' = [call |-> "advance", n |-> 0, result |-> r.result]
    /\ UNCHANGED <<sinkVars, koiVars, diagVars, lookVars, fmtVars, symVars>>

(* a call of cursor.nth(n) *)
CallNth ==
    /\ cur_pos # <<>>
    /\ \E n \in 0..MaxNth :
          cur_last' = [call |-> "nth", n |-> n,
                       result |-> cursor_nth(TheCursor, n)]
    /\ UNCHANGED <<cur_chars, cur_pos, cur_consumed, sinkVars, koiVars,
                   diagVars, lookVars, fmtVars, symVars>>

(* a call of cursor.source_len() *)
CallSourceLen ==
    /\ cur_pos # <<>>
    /\ cur_last' = [call |-> "source_len", n |-> 0,
                    result |-> cursor_source_len(TheCursor)]
    /\ UNCHANGED <<cur_chars, cur_pos, cur_consumed, sinkVars, koiVars,
                   diagVars, lookVars, fmtVars, symVars>>

CursorNext == CallAdvance \/ CallNth \/ CallSourceLen

SourceChars == {"a", " ", "\n"}

(* Cursor::with (lines 88-103) on a source that was read in full. *)
CursorInit ==
    /\ cur_chars \in SeqsUpTo(SourceChars, MaxSource)
    /\ cur_pos = PositionDefault
    /\ cur_consumed = <<>>
    /\ cur_last = <<>>
    /\ SinkOff
    /\ KoiOff
    /\ DiagOff
    /\ LookOff
    /\ FmtOff
    /\ SymOff

SpecCursor == CursorInit /\ [][CursorNext]_vars

-----------------------------------------------------------------------------
(* Reading a tree.                                                         *)

RECURSIVE Leaves(_), LeavesOfSeq(_)
Leaves(e) == IF e.node THEN LeavesOfSeq(e.children) ELSE <<e>>
LeavesOfSeq(es) ==
    IF es = <<>> THEN <<>> ELSE Leaves(es[1]) \o LeavesOfSeq(Tail(es))

LeafTokens(e) ==
    LET ls == Leaves(e) IN [k \in 1..Len(ls) |-> Token(ls[k].kind, ls[k].text)]

RECURSIVE ConcatText(_)
ConcatText(ts) ==
    IF ts = <<>> THEN "" ELSE ts[1].text \o ConcatText(Tail(ts))

Significant(ts) == SelectSeq(ts, LAMBDA t : ~is_trivia(t.kind))

CountIn(seq, x) == Cardinality({k \in 1..Len(seq) : seq[k] = x})

HasForwardParent(evs) ==
    \E k \in 1..Len(evs) :
        evs[k].type = "StartNode" /\ evs[k].forward_parent # None

-----------------------------------------------------------------------------
(* C1 (losslessness): when Sink::finish returns the tree of the parser's   *)
(* event log, the leaves of the tree in tree order are exactly the tokens  *)
(* of the input, trivia included, so that their texts concatenate to the   *)
(* source text.                                                            *)
C1_Lossless ==
    sphase = "done" =>
        /\ LeafTokens(tree[1]) = tokens
        /\ ConcatText(Leaves(tree[1])) = ConcatText(tokens)

(* A finished parse of a source with leading, inner and trailing trivia    *)
(* and a node that was given its parent after the fact.                    *)
C1_Witness ==
    /\ sphase = "done"
    /\ HasForwardParent(events0)
    /\ tokens[1].kind = "Comment"
    /\ tokens[Len(tokens)].kind = "Newline"
    /\ \E k \in 1..Len(tokens) : tokens[k].kind = "Whitespace"

-----------------------------------------------------------------------------
(* C4 (forward-parent correctness): `let foo = bar` yields a root holding  *)
(* one Dec_GlobalBinding node over the whole input with, in order, `let`,  *)
(* `foo`, `=` and an Exp_VariableRef node holding `bar`, the blanks in     *)
(* between being children of the binding node.                             *)
LetFooEqBar ==
    <<Token("Kwd_Let", "let"), Whitespace, Token("Identifier", "foo"),
      Whitespace, Token("Sym_Eq", "="), Whitespace,
      Token("Identifier", "bar")>>

C4_LetFooEqBar ==
    (sphase = "done" /\ tokens = LetFooEqBar) =>
        tree[1] =
          Node("Root", <<
            Node("Dec_GlobalBinding", <<
              Leaf("Kwd_Let", "let"), Leaf("Whitespace", " "),
              Leaf("Identifier", "foo"), Leaf("Whitespace", " "),
              Leaf("Sym_Eq", "="), Leaf("Whitespace", " "),
              Node("Exp_VariableRef", <<Leaf("Identifier", "bar")>>)>>)>>)

C4_Witness == sphase = "done" /\ tokens = LetFooEqBar

-----------------------------------------------------------------------------
(* C6 (trivia placement): for `// comment\nlet a = 10\n` the comment and   *)
(* the newline after it sit inside the binding, directly in front of the   *)
(* `let` keyword, and no trivia is a top-level sibling of the binding      *)
(* under the root.                                                         *)
CommentLetA10 ==
    <<Comment, Newline, Token("Kwd_Let", "let"), Whitespace,
      Token("Identifier", "a"), Whitespace, Token("Sym_Eq", "="), Whitespace,
      Token("Lit_Integer", "10"), Newline>>

C6_LeadingTriviaInBinding ==
    (sphase = "done" /\ tokens = CommentLetA10) =>
        LET top == tree[1].children IN
        /\ \A k \in 1..Len(top) : top[k].node
        /\ \E k \in 1..Len(top) :
              /\ top[k].kind = "Dec_GlobalBinding"
              /\ Len(top[k].children) >= 3
              /\ SubSeq(top[k].children, 1, 3) =
                    <<Leaf("Comment", "// comment"), Leaf("Newline", "\n"),
                      Leaf("Kwd_Let", "let")>>

-----------------------------------------------------------------------------
(* C8: Sink::finish terminates; when it returns, every event has been      *)
(* consumed exactly once and is tombstoned (a StartNode reached through a  *)
(* forward-parent chain is not opened again by the loop), and every        *)
(* significant token is in the tree exactly once.                          *)
SinkCanStep ==
    \/ InLoop /\ events[i + 1].type \in
                    {"StartNode", "AddToken", "FinishNode", "Placeholder"}
    \/ sphase = "sink" /\ i = Len(events)

C8_Returned ==
    /\ sphase = "sink" => (i <= Len(events0) /\ SinkCanStep)
    /\ sphase = "done" =>
        /\ i = Len(events0)
        /\ \A k \in 1..Len(events0) :
              /\ events[k] = Placeholder
              /\ taken[k] = IF events0[k] = Placeholder THEN 0 ELSE 1
        /\ LET sig == Significant(LeafTokens(tree[1])) IN
           /\ sig = Significant(tokens)
           /\ \A k \in 1..Len(tokens) :
                 ~is_trivia(tokens[k].kind) =>
                    CountIn(sig, tokens[k]) = CountIn(tokens, tokens[k])

(* Each step of the loop moves on by one event, up to the end of the log. *)
C8_Progress ==
    sphase = "sink" =>
        \/ sphase' = "sink" /\ i' = i + 1 /\ i' <= Len(events0)
        \/ sphase' \in {"done", "panic"}

C8_FinishConsumesOnce == [][C8_Progress]_vars /\ []C8_Returned

(* A returned tree whose log held a forward parent and a tombstone that    *)
(* the loop then stepped over.                                             *)
C8_Witness ==
    /\ sphase = "done"
    /\ HasForwardParent(events0)
    /\ Len(Significant(tokens)) >= 3

-----------------------------------------------------------------------------
(* C9: a malformed forward-parent chain makes Sink::finish panic inside    *)
(* its loop; no tree is returned.  A chain is malformed when an offset     *)
(* leads outside the log, is 0, leads to an event that is no StartNode, or *)
(* leads to a StartNode another chain leads to as well (whichever comes    *)
(* second finds it tombstoned).                                            *)
ChainTarget(evs, k) == (k - 1) + evs[k].forward_parent[1]

HasChain(evs, k) ==
    evs[k].type = "StartNode" /\ evs[k].forward_parent # None

MalformedChain(evs) ==
    \E k \in 1..Len(evs) :
        /\ HasChain(evs, k)
        /\ LET t == ChainTarget(evs, k) IN
           \/ t >= Len(evs)
           \/ t = k - 1
           \/ evs[t + 1].type # "StartNode"
           \/ \E k2 \in 1..Len(evs) :
                 k2 # k /\ HasChain(evs, k2) /\ ChainTarget(evs, k2) = t

C9_MalformedChainPanics ==
    MalformedChain(events0) =>
        /\ sphase \in {"sink", "panic"}
        /\ tree = <<>>
        /\ sphase = "sink" => i < Len(events)

(* The sink has panicked on a chain that leads to a StartNode which an     *)
(* earlier chain had already tombstoned.                                   *)
C9_Witness ==
    /\ sphase = "panic"
    /\ \E k \in 1..Len(events0), k2 \in 1..Len(events0) :
          /\ k < k2
          /\ HasChain(events0, k) /\ HasChain(events0, k2)
          /\ ChainTarget(events0, k) = ChainTarget(events0, k2)
          /\ ChainTarget(events0, k) < Len(events0)
          /\ events0[ChainTarget(events0, k) + 1].type = "StartNode"


-----------------------------------------------------------------------------
(* Reading a koi-syntax tree.                                              *)

IdentifierExpression(token) ==
    [type |-> "IdentifierExpressionNode", identifier |-> token]

BinaryExpression(operator, lhs, rhs) ==
    [type |-> "BinaryExpressionNode", operator |-> operator,
     lhs |-> lhs, rhs |-> rhs]

ExpressionNode(e) == [type |-> "ExpressionNode", expression |-> e]

(* The tokens a node holds, in the order of the source. *)
RECURSIVE NodeTokens(_)
NodeTokens(n) ==
    CASE n.type = "Eof" -> <<>>
      [] n.type = "ExpressionNode" -> NodeTokens(n.expression)
      [] n.type = "IdentifierExpressionNode" -> <<n.identifier>>
      [] n.type = "LiteralExpressionNode" -> <<n.literal>>
      [] n.type \in {"UnimplementedExpressionNode", "ErrorExpressionNode",
                     "UnexpectedTokenNode"} -> <<n.token>>
      [] n.type = "LocalBindingExpressionNode" ->
            <<n.let_keyword, n.identifier, n.equal_symbol>>
            \o NodeTokens(n.expression)
      [] n.type = "BinaryExpressionNode" ->
            NodeTokens(n.lhs) \o <<n.operator>> \o NodeTokens(n.rhs)
      [] n.type = "UnaryExpressionNode" ->
            <<n.operator>> \o NodeTokens(n.operand)
      [] n.type = "IfExpressionNode" ->
            <<n.if_keyword>> \o NodeTokens(n.condition) \o <<n.open_brace>>
            \o NodeTokens(n.expression) \o <<n.close_brace>>
            \o (IF n.else_clause = None THEN <<>>
                ELSE NodeTokens(n.else_clause[1]))
      [] n.type = "ElseClauseExpressionNode" ->
            <<n.else_keyword, n.open_brace>> \o NodeTokens(n.expression)
            \o <<n.close_brace>>

RECURSIVE TreeTokens(_)
TreeTokens(ns) ==
    IF ns = <<>> THEN <<>> ELSE NodeTokens(ns[1]) \o TreeTokens(Tail(ns))

(* A token of the source, as opposed to a missing token or Eof. *)
RealToken(t) == ~t.missing /\ t.kind # KEof

(* The tokens held by UnexpectedTokenNodes. *)
RECURSIVE UnexpectedTokens(_)
UnexpectedTokens(n) ==
    CASE n.type = "UnexpectedTokenNode" -> {n.token}
      [] n.type = "ExpressionNode" -> UnexpectedTokens(n.expression)
      [] n.type = "LocalBindingExpressionNode" ->
            UnexpectedTokens(n.expression)
      [] n.type = "BinaryExpressionNode" ->
            UnexpectedTokens(n.lhs) \cup UnexpectedTokens(n.rhs)
      [] n.type = "UnaryExpressionNode" -> UnexpectedTokens(n.operand)
      [] OTHER -> {}

SrcTexts == [k \in 1..Len(src) |-> src[k].text]

Additive == {KSymbol("Plus"), KSymbol("Minus")}
Multiplicative == {KSymbol("Asterisk"), KSymbol("ForwardSlash")}

-----------------------------------------------------------------------------
(* C3 (precedence and associativity): in `x op1 y op2 z` with op1 additive *)
(* (`+`, `-`), a multiplicative op2 (`*`, `/`) is nested under the right   *)
(* operand of op1, and an additive op2 takes `x op1 y` as its left         *)
(* operand; so `a + b * c` is a + (b * c) and `a - b - c` is (a - b) - c.  *)
C3_PrecedenceAndAssociativity ==
    (/\ kphase = "done"
     /\ Len(src) = 5
     /\ \A k \in {1, 3, 5} : src[k].kind = KIdentifier
     /\ src[2].kind \in Additive) =>
        LET x == IdentifierExpression(src[1])
            y == IdentifierExpression(src[3])
            z == IdentifierExpression(src[5])
        IN  /\ src[4].kind \in Multiplicative =>
                 nodes = <<ExpressionNode(
                    BinaryExpression(src[2], x,
                        BinaryExpression(src[4], y, z)))>>
            /\ src[4].kind \in Additive =>
                 nodes = <<ExpressionNode(
                    BinaryExpression(src[4],
                        BinaryExpression(src[2], x, y), z))>>

(* `a - b - c` has been parsed. *)
C3_Witness ==
    /\ kphase = "done"
    /\ SrcTexts = <<"a", "-", "b", "-", "c">>
    /\ Len(nodes) = 1

-----------------------------------------------------------------------------
(* C5 (recovery): `let foo` yields a binding holding `let`, `foo`, a       *)
(* zero-width missing `=` right behind `foo` and a zero-width              *)
(* missing-expression node at that same position.                          *)
C5_LetFooRecovers ==
    (kphase = "done" /\ SrcTexts = <<"let", "foo">>) =>
        /\ Len(nodes) = 1
        /\ nodes[1].type = "ExpressionNode"
        /\ LET binding == nodes[1].expression IN
           /\ binding.type = "LocalBindingExpressionNode"
           /\ binding.let_keyword = src[1]
           /\ binding.identifier = src[2]
           /\ binding.equal_symbol = MissingToken(KSymbol("Eq"), 7)
           /\ binding.expression =
                 [type |-> "MissingExpressionNode", position |-> 7]

-----------------------------------------------------------------------------
(* C10: an UnexpectedTokenNode holds the very token that could not start a *)
(* primary expression, and that token is the only one consumed for it:     *)
(* every token taken from the lexer and no longer in the lookahead is in   *)
(* the tree, once, in order.                                               *)
CanStartPrimary(kind) ==
    \/ kind[1] \in {"Identifier", "Literal", "Error"}
    \/ kind = KKeyword("Unimplemented")

Consumed ==
    SubSeq(src, 1,
           lexed - (IF peeked_token # None /\ RealToken(peeked_token[1])
                    THEN 1 ELSE 0))

C10_UnexpectedTokenKept ==
    kphase = "done" =>
        /\ \A k \in 1..Len(nodes) :
              \A t \in UnexpectedTokens(nodes[k]) : ~CanStartPrimary(t.kind)
        /\ SelectSeq(TreeTokens(nodes), RealToken) = Consumed


-----------------------------------------------------------------------------
(* C2 (totality): on every input, the empty one and those of trivia only   *)
(* included, a parse never panics, has a next step until it has returned, *)
(* every step brings its end nearer (the sink moves on by one event, a     *)
(* turn of Parser::parse takes at least one token from the lexer), and it  *)
(* returns one tree: helios-parser one Root node (with its list of         *)
(* diagnostics), koi-syntax one SyntaxTree whose nodes took the whole      *)
(* source.                                                                 *)
OnlyTrivia(ts) == \A k \in 1..Len(ts) : is_trivia(ts[k].kind)

C2_Returns ==
    /\ sphase # "panic"
    /\ sphase = "sink" => (i <= Len(events) /\ SinkCanStep)
    /\ kphase = "parse" => lexed <= Len(src)
    /\ sphase = "done" =>
          /\ Len(tree) = 1
          /\ tree[1].node
          /\ tree[1].kind = "Root"
          /\ parents = <<>>
    /\ kphase = "done" =>
          /\ lexed = Len(src)
          /\ Len(nodes) <= Len(src)
          /\ \A k \in 1..Len(nodes) :
                nodes[k].type \in {"ExpressionNode", "Eof"}

C2_Progress ==
    /\ (kphase = "parse" /\ kphase' = "parse") =>
          (lexed' > lexed /\ lexed' <= Len(src))
    /\ (sphase = "sink" /\ sphase' = "sink") =>
          (i' = i + 1 /\ i' <= Len(events))
    /\ sphase = "parse" => sphase' = "sink"

C2_Totality == [][C2_Progress]_vars /\ []C2_Returns

(* helios-parser has returned the tree of an input of trivia only. *)
C2_Witness ==
    /\ sphase = "done"
    /\ tokens # <<>>
    /\ OnlyTrivia(tokens)
    /\ tree[1].kind = "Root"

-----------------------------------------------------------------------------
(* C7 (severity ordering): `<` on Severity is a strict total order with    *)
(* Note < Warning < Error < Bug, and the check `is_ok &= s < Error` over a *)
(* slice is true exactly when the slice holds neither Error nor Bug.       *)
C7_SeverityOrder ==
    /\ lt("Note", "Warning") /\ lt("Warning", "Error") /\ lt("Error", "Bug")
    /\ lt("Note", "Error") /\ lt("Note", "Bug") /\ lt("Warning", "Bug")
    /\ \A a, b \in Severity :
          /\ lt(a, b) \/ a = b \/ lt(b, a)
          /\ ~(lt(a, b) /\ lt(b, a))
          /\ ~lt(a, a)
    /\ \A a, b, c \in Severity : (lt(a, b) /\ lt(b, c)) => lt(a, c)
    /\ is_ok <=> \A k \in 1..checked : severities[k] \notin {"Error", "Bug"}

(* The slice of test_compare_severity_not_ok has been checked. *)
C7_Witness ==
    /\ severities = <<"Note", "Error", "Warning">>
    /\ checked = Len(severities)
    /\ ~is_ok

-----------------------------------------------------------------------------
(* C11: the missing token that consume records for an absent token sits at *)
(* the cursor, between the end of the last consumed token and the start of *)
(* the next unconsumed one, lookahead cached or not, and no token is       *)
(* consumed for it.  Stated on a binding at the head of the source: its    *)
(* missing identifier sits between `let` and the second token, its missing *)
(* `=` between the last token taken so far and the one behind it.          *)
StartAt(j) == IF j <= Len(src) THEN src[j].start ELSE EndPos(TheParser)

EndAt(j) == src[j].start + src[j].len

C11_MissingAtCursor ==
    (kphase = "done" /\ Len(src) >= 1 /\ src[1].kind = KKeyword("Let")) =>
        LET binding == nodes[1].expression
            eq == IF binding.identifier.missing THEN 2 ELSE 3
        IN  /\ binding.type = "LocalBindingExpressionNode"
            /\ binding.let_keyword = src[1]
            /\ binding.identifier.missing =>
                  binding.identifier.start \in EndAt(1)..StartAt(2)
            /\ ~binding.identifier.missing => binding.identifier = src[2]
            /\ binding.equal_symbol.missing =>
                  binding.equal_symbol.start \in EndAt(eq - 1)..StartAt(eq)
            /\ ~binding.equal_symbol.missing => binding.equal_symbol = src[eq]

-----------------------------------------------------------------------------
(* C12: where the input ends and an expression is expected, the parser     *)
(* yields a zero-width missing-expression leaf at that position.  Stated   *)
(* on `x op` with op an infix operator: the right operand of op is the     *)
(* missing expression at the end of the source, and no node holds Eof as   *)
(* an unexpected token.                                                    *)
MissingExpression(position) ==
    [type |-> "MissingExpressionNode", position |-> position]

C12_MissingExpressionAtEnd ==
    kphase = "done" =>
        /\ \A k \in 1..Len(nodes) :
              \A t \in UnexpectedTokens(nodes[k]) : t.kind # KEof
        /\ (/\ Len(src) = 2
            /\ src[1].kind = KIdentifier
            /\ src[2].kind \in Additive \cup Multiplicative) =>
              nodes = <<ExpressionNode(
                          BinaryExpression(src[2],
                              IdentifierExpression(src[1]),
                              MissingExpression(EndPos(TheParser))))>>

-----------------------------------------------------------------------------
(* C13 (single-token lookahead): a peek on an empty cache takes exactly    *)
(* one token from the lexer, a peek on a full cache takes none and returns *)
(* the cached token, next_token on a full cache returns the cached token   *)
(* and empties the cache; so what next_token has returned is always the    *)
(* lexer's tokens in order, none skipped, none repeated, and the cache     *)
(* holds the token behind them.                                            *)

(* The j-th token the lexer hands out. *)
LexerToken(j) ==
    IF j <= Len(src) THEN src[j] ELSE SyntaxToken(KEof, "", EndPos(TheParser))

Min(a, b) == IF a < b THEN a ELSE b

C13_InOrder ==
    kphase = "calls" =>
        /\ \A j \in 1..Len(returned) : returned[j] = LexerToken(j)
        /\ peeked_token # None =>
              peeked_token[1] = LexerToken(Len(returned) + 1)
        /\ lexed = Min(Len(src),
                       Len(returned) + (IF peeked_token # None THEN 1 ELSE 0))
        /\ last_peek # None => last_peek = peeked_token

C13_Step ==
    kphase = "calls" =>
        /\ (peeked_token = None /\ peeked_token' # None) =>
              /\ lexed' = Min(Len(src), lexed + 1)
              /\ returned' = returned
        /\ (peeked_token # None /\ returned' = returned) =>
              /\ lexed' = lexed
              /\ peeked_token' = peeked_token
              /\ last_peek' = peeked_token
        /\ (peeked_token # None /\ returned' # returned) =>
              /\ returned' = Append(returned, peeked_token[1])
              /\ peeked_token' = None
              /\ lexed' = lexed

C13_SingleTokenLookahead == [][C13_Step]_vars /\ []C13_InOrder

(* Two tokens were returned and the third is cached after a peek. *)
C13_Witness ==
    /\ kphase = "calls"
    /\ Len(src) = 3
    /\ returned = <<src[1], src[2]>>
    /\ last_peek = Some(src[3])
    /\ peeked_token = Some(src[3])

-----------------------------------------------------------------------------
(* C14: the root spans the whole input.  The sink adds tokens only while a *)
(* node is open, and the tree it returns is one Root node whose leaves are *)
(* all tokens of the stream, the trivia in front of the first significant  *)
(* token and behind the last one included.                                 *)
C14_TokenUnderOpenNode ==
    (sphase = "sink" /\ cursor' > cursor) => parents' # <<>>

C14_WholeInput ==
    /\ sphase = "sink" => cursor <= Len(tokens)
    /\ sphase = "done" =>
          /\ tree[1].node
          /\ tree[1].kind = "Root"
          /\ cursor = Len(tokens)
          /\ Len(Leaves(tree[1])) = Len(tokens)
          /\ \A k \in 1..Len(tokens) :
                /\ ~Leaves(tree[1])[k].node
                /\ Leaves(tree[1])[k].kind = tokens[k].kind
                /\ Leaves(tree[1])[k].text = tokens[k].text

C14_RootSpansInput == [][C14_TokenUnderOpenNode]_vars /\ []C14_WholeInput

(* The tree of `// comment\nlet a = 10\n` has been returned. *)
C14_Witness ==
    /\ sphase = "done"
    /\ tokens = CommentLetA10
    /\ tree[1].kind = "Root"
    /\ Leaves(tree[1])[1].kind = "Comment"
    /\ Leaves(tree[1])[Len(tokens)].kind = "Newline"

-----------------------------------------------------------------------------
(* C15: the replay of the parser's log is one well-formed tree.  The depth *)
(* (the builder's stack of open nodes) never closes a node that was not    *)
(* opened, is above zero from the first event to the last and zero behind  *)
(* the last, where one root is left; the log opens as many nodes as it     *)
(* closes.                                                                 *)
CountType(evs, type) == Cardinality({k \in 1..Len(evs) : evs[k].type = type})

C15_WellFormedReplay ==
    /\ sphase # "panic"
    /\ sphase \in {"sink", "done"} =>
          /\ events0 # <<>>
          /\ events0[1].type = "StartNode"
          /\ events0[1].forward_parent = None
          /\ events0[Len(events0)].type = "FinishNode"
          /\ CountType(events0, "StartNode") = CountType(events0, "FinishNode")
    /\ sphase = "sink" =>
          /\ (0 < i /\ i < Len(events)) => parents # <<>>
          /\ i = 0 => (parents = <<>> /\ children = <<>>)
          /\ i = Len(events) => (parents = <<>> /\ Len(children) = 1)
    /\ sphase = "done" =>
          /\ parents = <<>>
          /\ Len(tree) = 1
          /\ tree[1].node

(* A log with a forward parent was replayed to its end. *)
C15_Witness ==
    /\ sphase = "sink"
    /\ i = Len(events)
    /\ HasForwardParent(events0)
    /\ CountType(events0, "StartNode") >= 4

-----------------------------------------------------------------------------
(* C16: every builder call of FormattedText appends at the end and leaves  *)
(* the segments already there as they were and in order; text, code and    *)
(* line_break append one segment of their kind, code_block and list append *)
(* theirs between two line breaks.                                         *)
Appended == SubSeq(segments', Len(segments) + 1, Len(segments'))

C16_Step ==
    (tphase = "build" /\ tphase' = "build") =>
        /\ Len(segments') > Len(segments)
        /\ SubSeq(segments', 1, Len(segments)) = segments
        /\ last_call'[1] = "text" =>
              Appended = <<[seg |-> "Text", text |-> last_call'[2]]>>
        /\ last_call'[1] = "code" =>
              Appended = <<[seg |-> "Code", code |-> last_call'[2]]>>
        /\ last_call'[1] = "line_break" =>
              Appended = <<[seg |-> "LineBreak"]>>
        /\ last_call'[1] = "code_block" =>
              Appended = <<[seg |-> "LineBreak"],
                           [seg |-> "CodeBlock", block |-> last_call'[2]],
                           [seg |-> "LineBreak"]>>
        /\ last_call'[1] = "list" =>
              Appended = <<[seg |-> "LineBreak"],
                           [seg |-> "List", lines |-> last_call'[2]],
                           [seg |-> "LineBreak"]>>

C16_BuilderAppends == [][C16_Step]_vars

(* A code block was appended behind a text. *)
C16_Witness ==
    /\ tphase = "build"
    /\ last_call = <<"code_block", "x">>
    /\ Len(segments) = 4
    /\ segments[1].seg = "Text"
    /\ segments[3].seg = "CodeBlock"

-----------------------------------------------------------------------------
(* C17: rendering is total and is the concatenation, in order, of the      *)
(* renderings of the segments.  Every segment is one of the five variants  *)
(* and has a rendering; with colorization off a text and a code render as  *)
(* their bare content; a list renders each child behind four blanks and    *)
(* ends it with a newline.                                                 *)
C17_Rendering ==
    /\ \A k \in 1..Len(segments) : segments[k].seg \in SegmentVariants
    /\ tphase = "fmt" =>
          /\ written <= Len(segments)
          /\ out = fmt_text(SubSeq(segments, 1, written), colorize)
          /\ \A k \in 1..Len(segments) :
                LET s == segments[k]
                    r == fmt_segment(s, colorize)
                IN  /\ Len(r) >= 0
                    /\ s.seg = "LineBreak" => r = "\n\n"
                    /\ (~colorize /\ s.seg = "Text") => r = s.text
                    /\ (~colorize /\ s.seg = "Code") => r = s.code
                    /\ (~colorize /\ s.seg = "CodeBlock") => r = "    x"
                    /\ (s.seg = "List" /\ s.lines = <<>>) => r = ""
                    /\ (s.seg = "List" /\ s.lines = <<ItemA>>) =>
                          r = "    a\n"
                    /\ (~colorize /\ s.seg = "List"
                          /\ s.lines = <<ItemA, ItemB>>) =>
                          r = "    a\n    by\n"
                    /\ (colorize /\ s.seg = "List"
                          /\ s.lines = <<ItemA, ItemB>>) =>
                          r = "    a\n    bESC[33myESC[0m\n"
          /\ (~colorize /\ written = Len(segments)
                /\ segments = <<Text("note: "), Code("x"), LineBreak,
                                List(<<ItemA, ItemB>>), LineBreak>>) =>
                out = "note: x\n\n    a\n    by\n\n\n"

(* `note: ` `x` and a list of two lines have been rendered without colour. *)
C17_Witness ==
    /\ tphase = "fmt"
    /\ ~colorize
    /\ written = Len(segments)
    /\ segments = <<Text("note: "), Code("x"), LineBreak,
                    List(<<ItemA, ItemB>>), LineBreak>>
    /\ out = "note: x\n\n    a\n    by\n\n\n"

-----------------------------------------------------------------------------
(* C18: bug, error, warning and note yield a diagnostic of that severity   *)
(* with the given title and the default in every other field, the default  *)
(* severity being Note; each setter returns a value that differs from the  *)
(* one it was called on in its own field only.                             *)
Fields ==
    {"location", "severity", "title", "description", "message", "hint"}

Constructors ==
    [bug |-> "Bug", error |-> "Error", warning |-> "Warning", note |-> "Note"]

C18_Constructed ==
    tphase = "diag" =>
        /\ DOMAIN diag = Fields
        /\ last_call[1] = "default" =>
              /\ diag.severity = "Note"
              /\ diag.title = ""
        /\ last_call[1] \in DOMAIN Constructors =>
              /\ diag.severity = Constructors[last_call[1]]
              /\ diag.title = last_call[2]
        /\ last_call[1] \in DOMAIN Constructors \cup {"default"} =>
              /\ diag.location = [file_id |-> 0, range |-> <<0, 0>>]
              /\ diag.description = <<>>
              /\ diag.message = <<>>
              /\ diag.hint = <<>>

C18_Setter ==
    (tphase = "diag" /\ last_call'[1] \in Fields) =>
        /\ \A f \in Fields \ {last_call'[1]} : diag'[f] = diag[f]
        /\ diag'[last_call'[1]] =
              IF last_call'[1] \in {"description", "hint"}
              THEN <<last_call'[2]>> ELSE last_call'[2]

C18_ImmutableBuilder == [][C18_Setter]_vars /\ []C18_Constructed

(* A warning was given a description, then a hint. *)
C18_Witness ==
    /\ tphase = "diag"
    /\ last_call = <<"hint", ItemA>>
    /\ diag.severity = "Warning"
    /\ diag.title = "unused binding"
    /\ diag.description = Some(ItemB)
    /\ diag.hint = Some(ItemA)
    /\ diag.message = <<>>

-----------------------------------------------------------------------------
(* C19: symbol_from_char gives each of the 31 one-character symbols a kind *)
(* of its own and panics on every other character; symbol_from_chars gives *)
(* the compound kind for the six two-character symbols and None for every  *)
(* other sequence of characters.                                           *)

(* test_symbol_from_char (lines 246-279) *)
TestSymbolFromChar ==
    {<<"&", "Sym_Ampersand">>,
     <<"*", "Sym_Asterisk">>,
     <<"@", "Sym_At">>,
     <<"\\", "Sym_BackSlash">>,
     <<"!", "Sym_Bang">>,
     <<"^", "Sym_Caret">>,
     <<":", "Sym_Colon">>,
     <<",", "Sym_Comma">>,
     <<"$", "Sym_Dollar">>,
     <<".", "Sym_Dot">>,
     <<"U+2014", "Sym_EmDash">>,
     <<"U+2013", "Sym_EnDash">>,
     <<"=", "Sym_Eq">>,
     <<"/", "Sym_ForwardSlash">>,
     <<"-", "Sym_Minus">>,
     <<"%", "Sym_Percent">>,
     <<"|", "Sym_Pipe">>,
     <<"+", "Sym_Plus">>,
     <<"#", "Sym_Pound">>,
     <<"?", "Sym_Question">>,
     <<";", "Sym_Semicolon">>,
     <<"U+00A3", "Sym_Sterling">>,
     <<"~", "Sym_Tilde">>,
     <<"<", "Sym_Lt">>,
     <<">", "Sym_Gt">>,
     <<"{", "Sym_LBrace">>,
     <<"}", "Sym_RBrace">>,
     <<"[", "Sym_LBracket">>,
     <<"]", "Sym_RBracket">>,
     <<"(", "Sym_LParen">>,
     <<")", "Sym_RParen">>}

(* test_symbol_from_two_chars (lines 281-289) *)
TestSymbolFromTwoChars ==
    {<<<<"!", "=">>, "Sym_BangEq">>,
     <<<<"<", "=">>, "Sym_LtEq">>,
     <<<<">", "=">>, "Sym_GtEq">>,
     <<<<"<", "-">>, "Sym_LThinArrow">>,
     <<<<"-", ">">>, "Sym_RThinArrow">>,
     <<<<"=", ">">>, "Sym_ThickArrow">>}

SingleSymbols == {p[1] : p \in TestSymbolFromChar}

C19_SymbolTables ==
    /\ Cardinality(SingleSymbols) = 31
    /\ Cardinality({p[2] : p \in TestSymbolFromChar}) = 31
    /\ Cardinality(TestSymbolFromTwoChars) = 6
    /\ sym_called = "symbol_from_char" =>
          /\ sym_chars[1] \in SingleSymbols =>
                <<sym_chars[1], sym_kind>> \in TestSymbolFromChar
          /\ sym_chars[1] \notin SingleSymbols => sym_kind = "panic"
          /\ \A c \in SingleSymbols \ {sym_chars[1]} :
                symbol_from_char(c) # sym_kind
    /\ sym_called = "symbol_from_chars" =>
          /\ sym_kind # None <=>
                sym_chars \in {p[1] : p \in TestSymbolFromTwoChars}
          /\ sym_kind # None =>
                <<sym_chars, sym_kind[1]>> \in TestSymbolFromTwoChars

(* symbol_from_char('{') returned the kind of the left brace. *)
C19_Witness ==
    /\ sym_called = "symbol_from_char"
    /\ sym_chars = <<"{">>
    /\ sym_kind = "Sym_LBrace"

-----------------------------------------------------------------------------
(* C20: for every spelling Sym! has a rule for, Sym![s] is the kind of     *)
(* that spelling: symbol_from_char(c) for a spelling of one character, the *)
(* value of symbol_from_chars for a spelling of two.                       *)
C20_SymIsKindOfSpelling ==
    sym_called = "Sym" =>
        /\ Len(sym_chars) = 1 => sym_kind = symbol_from_char(sym_chars[1])
        /\ Len(sym_chars) = 2 => Some(sym_kind) = symbol_from_chars(sym_chars)

-----------------------------------------------------------------------------
(* C21: on a StartNode whose forward-parent chain has the kinds k0 (the    *)
(* event itself), k1, ..., kn, the sink opens kn first and k0 last, each   *)
(* as the first child of the one before, so that kn contains k(n-1) ...    *)
(* contains k0; in the returned tree a node that was completed and then    *)
(* preceded by a new parent is the first child of that parent.             *)
RECURSIVE ChainKinds(_, _)
ChainKinds(evs, idx) ==
    LET e == evs[idx + 1] IN
    IF e.forward_parent = None THEN <<e.kind>>
    ELSE <<e.kind>> \o ChainKinds(evs, idx + e.forward_parent[1])

RECURSIVE NodesOf(_)
NodesOf(e) ==
    IF e.node
    THEN {e} \cup UNION {NodesOf(e.children[k]) : k \in 1..Len(e.children)}
    ELSE {}

ExpressionKinds ==
    {"Exp_VariableRef", "Exp_Literal", "Exp_Binary", "Exp_Missing",
     "Exp_UnexpectedToken"}

C21_OpensInReverse ==
    (InLoop /\ events[i + 1].type = "StartNode" /\ sphase' = "sink") =>
        LET ks == ChainKinds(events, i)
            n == Len(ks)
        IN  /\ Len(parents') = Len(parents) + n
            /\ SubSeq(parents', 1, Len(parents)) = parents
            /\ \A j \in 1..n :
                  parents'[Len(parents) + j] =
                     [kind |-> ks[n + 1 - j], first_child |-> Len(children)]

C21_PrecededIsFirstChild ==
    sphase = "done" =>
        \A e \in NodesOf(tree[1]) :
            e.kind = "Exp_Binary" =>
                /\ e.children # <<>>
                /\ e.children[1].node
                /\ e.children[1].kind \in ExpressionKinds

C21_ReverseOpening ==
    [][C21_OpensInReverse]_vars /\ []C21_PrecededIsFirstChild

(* The loop has just opened a chain of three kinds, the outermost first. *)
C21_Witness ==
    /\ sphase = "sink"
    /\ i > 0
    /\ events0[i].type = "StartNode"
    /\ Len(ChainKinds(events0, i - 1)) = 3
    /\ Len(parents) >= 3
    /\ parents[Len(parents)].kind = events0[i].kind
    /\ parents[Len(parents) - 2].kind = "Exp_Binary"

-----------------------------------------------------------------------------
(* Operator expressions: `x p y q z` with three identifiers.               *)
LeftPower(kind) == infix_binding_power(kind[2])[1][1]
RightPower(kind) == infix_binding_power(kind[2])[1][2]

IsInfix(kind) ==
    kind[1] = "Symbol" /\ infix_binding_power(kind[2]) # None

TwoOperators ==
    /\ kphase = "done"
    /\ Len(src) = 5
    /\ \A k \in {1, 3, 5} : src[k].kind = KIdentifier
    /\ \A k \in {2, 4} : IsInfix(src[k].kind)

(* (x p y) q z *)
GroupsLeft ==
    nodes = <<ExpressionNode(
        BinaryExpression(src[4],
            BinaryExpression(src[2], IdentifierExpression(src[1]),
                                     IdentifierExpression(src[3])),
            IdentifierExpression(src[5])))>>

(* x p (y q z) *)
GroupsRight ==
    nodes = <<ExpressionNode(
        BinaryExpression(src[2],
            IdentifierExpression(src[1]),
            BinaryExpression(src[4], IdentifierExpression(src[3]),
                                     IdentifierExpression(src[5]))))>>

-----------------------------------------------------------------------------
(* C22: higher binding power binds tighter: for two infix operators p and  *)
(* q where the left power of p is greater than that of q, `a p b q c`      *)
(* groups as (a p b) q c and `a q b p c` groups as a q (b p c).            *)
C22_HigherBindsTighter ==
    TwoOperators =>
        /\ LeftPower(src[2].kind) > LeftPower(src[4].kind) => GroupsLeft
        /\ LeftPower(src[2].kind) < LeftPower(src[4].kind) => GroupsRight

-----------------------------------------------------------------------------
(* C23: parse_binary_expression(min) takes an infix operator only while    *)
(* its left power is at least min and parses the right operand with the    *)
(* operator's right power: in `x p y q z` the operator q goes to the right *)
(* operand of p exactly when its left power is at least the right power of *)
(* p.  So the operators whose left power exceeds their right power (`=`,   *)
(* `!=`, `<-`) are right-associative, `a op b op c` being a op (b op c),   *)
(* and the operators whose left power is below their right power are       *)
(* left-associative.                                                       *)
RightAssociative ==
    {s \in InfixSymbols : LeftPower(KSymbol(s)) > RightPower(KSymbol(s))}

C23_Associativity ==
    /\ RightAssociative = {"Eq", "BangEq", "LThinArrow"}
    /\ \A s \in InfixSymbols \ RightAssociative :
          LeftPower(KSymbol(s)) < RightPower(KSymbol(s))
    /\ TwoOperators =>
          /\ LeftPower(src[4].kind) >= RightPower(src[2].kind) => GroupsRight
          /\ LeftPower(src[4].kind) < RightPower(src[2].kind) => GroupsLeft
          /\ src[2].kind = src[4].kind =>
                IF src[2].kind[2] \in RightAssociative
                THEN GroupsRight /\ ~GroupsLeft
                ELSE GroupsLeft /\ ~GroupsRight

(* `a = b = c` has been parsed as a = (b = c). *)
C23_Witness ==
    /\ kphase = "done"
    /\ SrcTexts = <<"a", "=", "b", "=", "c">>
    /\ GroupsRight

-----------------------------------------------------------------------------
(* C24: at `let`, global_binding opens a marker, consumes the keyword,     *)
(* expects an identifier, expects `=` and parses an expression, in that    *)
(* order, and on every path completes its marker once, as                  *)
(* Dec_GlobalBinding, before it returns: whatever is missing, the binding  *)
(* node holds `let`, the identifier and the `=` that were there, in that   *)
(* order, and one expression node behind them; a piece is reported missing *)
(* only where the token at hand was not that piece, the identifier before  *)
(* the `=`; no marker is left open in the log.                             *)

(* The children of a node that are nodes or significant tokens. *)
SignificantChildren(e) ==
    SelectSeq(e.children, LAMBDA c : c.node \/ ~is_trivia(c.kind))

IsLeafOf(c, kind) == ~c.node /\ c.kind = kind

HasIdentifier(ks) == Len(ks) >= 2 /\ IsLeafOf(ks[2], "Identifier")

AfterIdentifier(ks) == IF HasIdentifier(ks) THEN 2 ELSE 1

HasEq(ks) ==
    /\ Len(ks) >= AfterIdentifier(ks) + 1
    /\ IsLeafOf(ks[AfterIdentifier(ks) + 1], "Sym_Eq")

AfterEq(ks) == AfterIdentifier(ks) + (IF HasEq(ks) THEN 1 ELSE 0)

(* The kind of the first significant token held by ks[from..]. *)
NextKind(ks, from) ==
    LET ls == Significant(LeavesOfSeq(SubSeq(ks, from, Len(ks))))
    IN  IF ls = <<>> THEN None ELSE Some(ls[1].kind)

BindingShape(e) ==
    LET ks == SignificantChildren(e) IN
    /\ ks # <<>>
    /\ ks[1] = Leaf("Kwd_Let", "let")
    /\ Len(ks) = AfterEq(ks) + 1
    /\ ks[Len(ks)].node
    /\ ks[Len(ks)].kind \in ExpressionKinds
    /\ ~HasIdentifier(ks) => NextKind(ks, 2) # Some("Identifier")
    /\ ~HasEq(ks) => NextKind(ks, AfterIdentifier(ks) + 1) # Some("Sym_Eq")

(* How many pieces the bindings under e lack; how many bindings it holds. *)
RECURSIVE MissingPieces(_), Bindings(_), SumOver(_, _)
SumOver(F(_), es) ==
    IF es = <<>> THEN 0 ELSE F(es[1]) + SumOver(F, Tail(es))

MissingPieces(e) ==
    IF ~e.node THEN 0
    ELSE (IF e.kind = "Dec_GlobalBinding"
          THEN LET ks == SignificantChildren(e)
               IN  (IF HasIdentifier(ks) THEN 0 ELSE 1)
                   + (IF HasEq(ks) THEN 0 ELSE 1)
          ELSE 0)
         + SumOver(MissingPieces, e.children)

Bindings(e) ==
    IF ~e.node THEN 0
    ELSE (IF e.kind = "Dec_GlobalBinding" THEN 1 ELSE 0)
         + SumOver(Bindings, e.children)

BindingStarts(evs) ==
    Cardinality({k \in 1..Len(evs) :
        evs[k].type = "StartNode" /\ evs[k].kind = "Dec_GlobalBinding"})

C24_CompletedInLog ==
    sphase \in {"sink", "done", "panic"} =>
        /\ \A k \in 1..Len(events0) : events0[k] # Placeholder
        /\ \A k \in 1..Len(events0) :
              (events0[k].type = "StartNode"
               /\ events0[k].kind = "Dec_GlobalBinding") =>
                  /\ events0[k].forward_parent = None
                  /\ events0[k + 1] = AddToken("Kwd_Let", "let")
        /\ \A k \in 1..Len(diagnostics) :
              /\ diagnostics[k].context = "Dec_GlobalBinding"
              /\ diagnostics[k].expected \in {"Identifier", "Sym_Eq"}
              /\ (k < Len(diagnostics)
                  /\ diagnostics[k].expected = "Sym_Eq"
                  /\ diagnostics[k + 1].expected = "Identifier") =>
                    diagnostics[k + 1].at > diagnostics[k].at

C24_BindingInTree ==
    sphase = "done" =>
        /\ \A e \in NodesOf(tree[1]) :
              e.kind = "Dec_GlobalBinding" => BindingShape(e)
        /\ Bindings(tree[1]) = BindingStarts(events0)
        /\ MissingPieces(tree[1]) = Len(diagnostics)
        /\ (Significant(tokens) # <<>>
            /\ Significant(tokens)[1].kind = "Kwd_Let") =>
              /\ events0[2] = StartNode("Dec_GlobalBinding", None)
              /\ SignificantChildren(tree[1])[1].kind = "Dec_GlobalBinding"

C24_GlobalBinding == C24_CompletedInLog /\ C24_BindingInTree

(* A binding that lacked its identifier and its `=` was completed. *)
C24_Witness ==
    /\ sphase = "done"
    /\ Len(diagnostics) = 2
    /\ Significant(tokens)[1].kind = "Kwd_Let"
    /\ Len(Significant(tokens)) = 2
    /\ Significant(tokens)[2].kind = "Lit_Integer"

-----------------------------------------------------------------------------
(* C25: processing a Placeholder event changes nothing in the sink: no     *)
(* node is opened or closed, no token is added and the token cursor stays  *)
(* where it is, the trivia drain behind it finding nothing to attach; the  *)
(* loop moves on to the next event.                                        *)
C25_Step ==
    (InLoop /\ events[i + 1] = Placeholder) =>
        /\ parents' = parents
        /\ children' = children
        /\ cursor' = cursor
        /\ events' = events
        /\ taken' = taken
        /\ tree' = tree
        /\ sphase' = "sink"
        /\ i' = i + 1

C25_PlaceholderIsNoOp == [][C25_Step]_vars

(* The loop has just stepped over the tombstone of a forward parent, with  *)
(* tokens still ahead of the cursor.                                       *)
C25_Witness ==
    /\ sphase = "sink"
    /\ i > 0
    /\ events0[i].type = "StartNode"
    /\ taken[i] = 1
    /\ \E k \in 1..(i - 1) :
          HasChain(events0, k) /\ ChainTarget(events0, k) = i - 1
    /\ cursor < Len(tokens)
    /\ \E k \in 1..Len(tokens) : is_trivia(tokens[k].kind)

-----------------------------------------------------------------------------
(* C26: consuming past the end of the token stream terminates loudly: when *)
(* the log holds an AddToken event while the cursor is at or past the end  *)
(* of the token stream, Sink::finish aborts and returns no tree.  Only an  *)
(* AddToken can move the cursor past the end, so a tree is returned only   *)
(* with the cursor within the stream.                                      *)
C26_PastEndAborts ==
    /\ sphase = "done" => cursor <= Len(tokens)
    /\ cursor > Len(tokens) => tree = <<>>

-----------------------------------------------------------------------------
(* C27: after advance has consumed a prefix of the source, pos.line is the *)
(* number of '\n' consumed and pos.character the number of characters      *)
(* consumed since the last '\n', or since the start; on an exhausted       *)
(* source advance returns None and leaves pos as it is; nth(n) changes     *)
(* neither pos nor what is ahead and returns EOF_CHAR when n is past the   *)
(* end; source_len drops by exactly one on each successful advance.        *)
Newlines(cs) == Cardinality({k \in 1..Len(cs) : cs[k] = "\n"})

(* The index of the last '\n' of cs, 0 when it has none. *)
LastNewline(cs) ==
    LET at == {k \in 1..Len(cs) : cs[k] = "\n"}
    IN  IF at = {} THEN 0 ELSE CHOOSE k \in at : \A j \in at : j <= k

C27_Position ==
    cur_pos # <<>> =>
        /\ cur_pos.line = Newlines(cur_consumed)
        /\ cur_pos.character = Len(cur_consumed) - LastNewline(cur_consumed)

C27_Step ==
    cur_pos # <<>> =>
        /\ cur_last'.call = "advance" =>
              IF cur_chars = <<>>
              THEN /\ cur_last'.result = None
                   /\ cur_pos' = cur_pos
                   /\ cur_chars' = cur_chars
              ELSE /\ cur_last'.result = Some(cur_chars[1])
                   /\ Len(cur_chars') = Len(cur_chars) - 1
                   /\ cur_consumed' \o cur_chars' = cur_consumed \o cur_chars
        /\ cur_last'.call = "nth" =>
              /\ cur_pos' = cur_pos
              /\ cur_chars' = cur_chars
              /\ cur_last'.result =
                    IF cur_last'.n >= Len(cur_chars) THEN EOF_CHAR
                    ELSE cur_chars[cur_last'.n + 1]
        /\ cur_last'.call = "source_len" =>
              /\ cur_pos' = cur_pos
              /\ cur_chars' = cur_chars
              /\ cur_last'.result = Len(cur_chars)

C27_CursorPosition == [][C27_Step]_vars /\ []C27_Position

(* A line break and a character behind it have been consumed, and advance  *)
(* was then called on the exhausted source.                                *)
C27_Witness ==
    /\ cur_pos = [line |-> 1, character |-> 1]
    /\ cur_consumed = <<"a", "a", "\n", "a">>
    /\ cur_chars = <<>>
    /\ cur_last = [call |-> "advance", n |-> 0, result |-> None]

-----------------------------------------------------------------------------
(* C28: after Sink::finish has processed an event, the token cursor is     *)
(* past the end of the token stream or at a token that is no trivia; the   *)
(* cursor never decreases; an AddToken event advances it by exactly one    *)
(* whatever token is at the cursor, and the leaf it adds carries the       *)
(* event's kind and text, not the stream token's; what the cursor moves    *)
(* beyond that one is the trivia the drain attaches.                       *)
C28_AtSignificant ==
    (sphase = "sink" /\ i > 0) =>
        \/ cursor >= Len(tokens)
        \/ ~is_trivia(tokens[cursor + 1].kind)

C28_Step ==
    sphase = "sink" =>
        /\ cursor' >= cursor
        /\ (InLoop /\ events[i + 1].type = "AddToken") =>
              LET e == events[i + 1]
                  n == Len(children)
                  moved == cursor' - cursor
              IN  /\ OnAddToken(TheSink, i, e).cursor = cursor + 1
                  /\ sphase' = "sink"
                  /\ moved >= 1
                  /\ Len(children') = n + moved
                  /\ SubSeq(children', 1, n) = children
                  /\ children'[n + 1] = Leaf(e.kind, e.text)
                  /\ \A j \in 2..moved :
                        /\ is_trivia(tokens[cursor + j].kind)
                        /\ children'[n + j] =
                              Leaf(tokens[cursor + j].kind,
                                   tokens[cursor + j].text)

C28_CursorDiscipline == [][C28_Step]_vars /\ []C28_AtSignificant

(* An AddToken event was processed with another token at the cursor, and   *)
(* the drain behind it attached a blank.                                   *)
C28_Witness ==
    /\ sphase = "sink"
    /\ i = 1
    /\ events0[1].type = "AddToken"
    /\ tokens = <<Token("Lit_Integer", "10"), Token("Whitespace", " ")>>
    /\ cursor = 2
    /\ children = <<Leaf("Identifier", "x"), Leaf("Whitespace", " ")>>

-----------------------------------------------------------------------------
(* C29: when the loop of Parser::parse ends because the lexer is at its    *)
(* end, the lookahead cache is empty: every token the parser has pulled    *)
(* from the lexer is held by a node of the returned tree and none is left  *)
(* in peeked_token.                                                        *)
C29_CacheEmptyAtExit ==
    kphase = "done" =>
        /\ peeked_token = None
        /\ \A k \in 1..lexed :
              \E j \in 1..Len(TreeTokens(nodes)) :
                  TreeTokens(nodes)[j] = src[k]

-----------------------------------------------------------------------------
(* C30: for a prefix operator (`-` or `!`, prefix power 9) in front of an  *)
(* operand a that is followed by an infix operator op and an operand b,    *)
(* the operand of the unary node is a alone when the left power of op is   *)
(* below 9, and is the whole binary expression a op b when it is 9 or more *)
(* (`*`, `/`).                                                             *)
UnaryExpression(operator, operand) ==
    [type |-> "UnaryExpressionNode", operator |-> operator,
     operand |-> operand]

PrefixedOperand ==
    /\ kphase = "done"
    /\ Len(src) = 4
    /\ src[1].kind[1] = "Symbol"
    /\ src[1].kind[2] \in PrefixSymbols
    /\ src[2].kind = KIdentifier
    /\ IsInfix(src[3].kind)
    /\ src[4].kind = KIdentifier

C30_PrefixOperand ==
    /\ \A s \in {"Minus", "Bang"} : prefix_binding_power(s) = Some(9)
    /\ PrefixedOperand =>
          LET a == IdentifierExpression(src[2])
              b == IdentifierExpression(src[4])
          IN  /\ LeftPower(src[3].kind) < 9 =>
                   nodes = <<ExpressionNode(
                      BinaryExpression(src[3],
                          UnaryExpression(src[1], a), b))>>
              /\ LeftPower(src[3].kind) >= 9 =>
                   /\ src[3].kind[2] \in {"Asterisk", "ForwardSlash"}
                   /\ nodes = <<ExpressionNode(
                         UnaryExpression(src[1],
                             BinaryExpression(src[3], a, b)))>>

(* `! a * b` has been parsed, the product under the `!`. *)
C30_Witness ==
    /\ kphase = "done"
    /\ SrcTexts = <<"!", "foo", "*", "bar">>
    /\ nodes[1].expression.type = "UnaryExpressionNode"

=============================================================================
